---- MODULE Spec2Model ----
(***************************************************************************)
(* Agent / sandbox interaction protocol of the architecture benchmark      *)
(* (architecture-compare/scripts/architecture-benchmark.ts, harness        *)
(* "arch") and of the bash-agent-eval benchmark                            *)
(* (architecture-compare/scripts/bash-agent-eval-benchmark.ts, harness     *)
(* "bash"): the orchestrator loop, the agent loop, the tool protocol       *)
(* parser, the tool executors and the scorer.                              *)
(*                                                                         *)
(* Numbers are fixed-point integers in units of 1/Scale.  Strings that the *)
(* code parses are sequences of tags (model output) or of characters       *)
(* (answer values).                                                        *)
(***************************************************************************)
EXTENDS Integers, Sequences, FiniteSets, TLC

\* ---------------------------------------------------------------- bounds
\* largest turn budget (--max-turns) explored
MaxTurnsBound == 2
\* number of (sandbox, task) / (agent, question) combinations of one invocation
NumCombos == 2
\* longest model output, in tokens, given to the parser on its own
MaxTextLen == 4
\* latest value of the millisecond clock and number of runs set up, for the
\* directory names taken on their own
MaxClock == 2
MaxRuns == 3
\* most rows of the api_usage table in the datasets taken on their own
MaxRows == 2
\* most entries of a models directory and most lines printed by a validation
\* script, for the validators taken on their own
MaxFiles == 2
MaxLines == 2
\* widest tolerance, in units of 1/Scale, and longest trace of read_file
\* calls, for the scoring of a run taken on its own
MaxTol == 2
MaxReads == 2
\* fixed-point unit: 1.0 is Scale
Scale == 1000

\* ---------------------------------------------------------------- JS values
Num(n) == [kind |-> "num", v |-> n]
NaN == [kind |-> "nan", v |-> 0]
Null == [kind |-> "null", v |-> 0]
Undefined == [kind |-> "undefined", v |-> 0]
NoError == "none"

Abs(n) == IF n < 0 THEN -n ELSE n

\* ---------------------------------------------------------------- tasks
\* expectedValue() and tolerance of the tasks: the ARPU scenario (expected
\* 1000, tolerance 1) and the churn-rate scenario (expected 0, tolerance 0.001)
TaskTable ==
  << [id |-> "active_user_arpu", expected |-> 1000 * Scale, tolerance |-> 1 * Scale],
     [id |-> "org_churn_rate", expected |-> 0, tolerance |-> 1] >>

\* variant: the expected value is read from a file the agent can write
expectedValue_FromWorkspace(task, w) ==
  IF w["q.ts"] = "agent" THEN task.expected + 1 ELSE task.expected

\* task.expectedValue() / question.expectedValue: computed from the dataset
\* loaded by main (or the repository's data directory), not from the files of
\* the sandbox directory w
expectedValue(task, w) == task.expected

Combos == 1..NumCombos
TaskOf(c) == TaskTable[((c - 1) % Len(TaskTable)) + 1]
\* bash-agent-eval: for (agent of ['bash','sql']) for (question of questions)
AgentTypeOf(c) == IF c % 2 = 1 THEN "bash" ELSE "sql"

\* ---------------------------------------------------------------- workspace
\* Paths an agent can name, relative to the sandbox directory.  "q.ts" is a
\* fixture file, "data" the injected dataset directory, "q.ts/x" has a regular
\* file as parent, "m/y" has a missing parent directory "m", "data/u" is a
\* file of the dataset, "data.sqlite" the data store built from the dataset.
Paths == {"q.ts", "data", "q.ts/x", "m", "m/y", "../out", "data/u", "data.sqlite"}
Parent(p) == CASE p = "q.ts/x" -> "q.ts"
               [] p = "m/y" -> "m"
               [] p = "data/u" -> "data"
               [] p = "../out" -> ".."
               [] OTHER -> "."
\* path.join(sandboxDir, p) normalizes '..' segments: "../out" names an entry
\* of the directory that holds the sandbox directory
Outside(p) == p = "../out"
\* the sandbox directory and the directory that holds it exist
Roots == {".", ".."}
\* entry kinds: "none" (absent), "dir", "orig" (file with fixture content),
\* "agent" (file whose content the agent wrote)
FreshWorkspace ==
  [p \in Paths |-> CASE p \in {"q.ts", "data/u", "data.sqlite"} -> "orig"
                     [] p = "data" -> "dir"
                     [] OTHER -> "none"]

\* the dataset a validation script loads: ./data/<file>.json, read with the
\* sandbox directory as working directory
dataLoads(w) == w["data/u"]

\* setupSandboxDir: a new sandbox directory with the fixture copy and the
\* dataset; what lies outside it stays as it was
setupSandboxDir(w) == [p \in Paths |-> IF Outside(p) THEN w[p] ELSE FreshWorkspace[p]]

\* fs.existsSync: false when the entry or a directory on the way is missing
existsSync(w, p) == IF p \in Roots THEN TRUE ELSE w[p] # "none"
IsDirectory(w, p) == IF p \in Roots THEN TRUE ELSE w[p] = "dir"
IsFile(w, p) == p \notin Roots /\ w[p] \in {"orig", "agent"}

\* fs.mkdirSync(dir, {recursive: true}): creates the missing directories;
\* throws (EEXIST/ENOTDIR) when dir exists and is not a directory
mkdirSync(w, d) ==
  IF IsDirectory(w, d) THEN [threw |-> FALSE, ws |-> w]
  ELSE IF IsFile(w, d) THEN [threw |-> TRUE, ws |-> w]
  ELSE [threw |-> FALSE, ws |-> [w EXCEPT ![d] = "dir"]]

\* fs.writeFileSync(file, content): creates or overwrites a regular file;
\* throws (EISDIR) when file is a directory
writeFileSync(w, p) ==
  IF IsDirectory(w, p) THEN [threw |-> TRUE, ws |-> w]
  ELSE [threw |-> FALSE, ws |-> [w EXCEPT ![p] = "agent"]]

\* ---------------------------------------------------------------- model output
\* A model output is free text; what the parser can see of it is the sequence
\* of its complete tags, each [tag, body].  Text outside tags is dropped.
Tag(t, b) == [tag |-> t, body |-> b]

\* bodies that match \w+ (a tool name the regular expression accepts)
WordBodies == {"read_file", "write_file", "list_files", "done", "bash",
               "answer", "query", "tables", "schema", "sample", "deploy",
               "edit_file", "run_command"}

\* answer values as character sequences
TxtHalf == <<"9", "9", "9", ".", "5">>
TxtLow == <<"9", "9", "8">>
TxtComma == <<" ", "1", ",", "0", "0", "0">>
TxtWords == <<"a", "b", "c">>
AnswerTexts == {TxtHalf, TxtLow, TxtComma, TxtWords}

\* shell commands as word sequences; the first word is the program started
Commands == { <<"jq", "data">>, <<"rm", "q.ts">>, <<"echo", ">", "q.ts">> }

\* SQL statements by their leading keyword
Statements == { <<"SELECT">>, <<"DROP">> }

ArchOutputs ==
  { << >>,
    <<Tag("tool", "not a word")>>,
    <<Tag("tool", "done")>>,
    <<Tag("tool", "deploy")>>,
    <<Tag("tool", "read_file")>>,
    <<Tag("tool", "list_files")>>,
    <<Tag("tool", "read_file"), Tag("tool", "done")>>,
    <<Tag("tool", "not a word"), Tag("tool", "done")>>,
    <<Tag("tool", "done"), Tag("tool", "write_file"), Tag("path", "q.ts"),
      Tag("content", "x")>>,
    <<Tag("tool", "read_file"), Tag("path", "data"), Tag("tool", "done")>>,
    <<Tag("tool", "write_file"), Tag("path", "q.ts")>> }
  \cup { <<Tag("tool", "read_file"), Tag("path", p)>> : p \in {"q.ts", "m/y"} }
  \cup { <<Tag("path", p), Tag("tool", "list_files")>> : p \in {"q.ts", "data"} }
  \cup { <<Tag("tool", "write_file"), Tag("path", p), Tag("content", "x")>> :
         p \in {"q.ts", "data", "q.ts/x", "m/y"} }

BashOutputs ==
  { << >>,
    <<Tag("tool", "answer")>>,
    <<Tag("tool", "done")>>,
    <<Tag("tool", "bash")>>,
    <<Tag("tool", "query")>>,
    <<Tag("tool", "tables")>>,
    <<Tag("tool", "schema"), Tag("table", "users")>>,
    <<Tag("tool", "sample")>> }
  \cup { <<Tag("tool", "answer"), Tag("value", v)>> : v \in AnswerTexts }
  \cup { <<Tag("tool", "bash"), Tag("command", c)>> : c \in Commands }
  \cup { <<Tag("tool", "query"), Tag("sql", q)>> : q \in Statements }

\* outputs that name a path outside the sandbox directory
EscapingOutputs(h) ==
  IF h # "bash"
  THEN { <<Tag("tool", "write_file"), Tag("path", "../out"), Tag("content", "x")>>,
         <<Tag("tool", "read_file"), Tag("path", "../out")>> }
  ELSE { <<Tag("tool", "bash"), Tag("command", <<"echo", ">", "../out">>)>>,
         <<Tag("tool", "bash"), Tag("command", <<"jq", "../out">>)>> }

\* outputs that overwrite the dataset, start find, or send a writing
\* statement that begins with WITH
ProbingOutputs(h) ==
  IF h = "modular"
  THEN { <<Tag("tool", "edit_file"), Tag("path", p), Tag("content", "x")>> :
         p \in {"q.ts", "data", "m/y"} }
       \cup { <<Tag("tool", "run_command"), Tag("command", <<"echo", ">", "q.ts">>)>>,
              <<Tag("tool", "run_command")>> }
  ELSE IF h # "bash"
  THEN { <<Tag("tool", "write_file"), Tag("path", "data/u"), Tag("content", "x")>> }
  ELSE { <<Tag("tool", "bash"), Tag("command", <<"find", "data/u", "-delete">>)>>,
         <<Tag("tool", "bash"), Tag("command", <<"echo", ";", "rm", "q.ts">>)>>,
         <<Tag("tool", "bash"), Tag("command", <<"cat", "q.ts", "|", "jq">>)>>,
         <<Tag("tool", "query"), Tag("sql", <<"WITH", "DELETE">>)>> }

\* variant: the last match is taken
FirstOf_Last(hits) == IF hits = {} THEN 0 ELSE CHOOSE i \in hits : \A j \in hits : i >= j

\* the least index of a set of hits, 0 when there is none
\* (String.prototype.match without the g flag returns the first match)
FirstOf(hits) == IF hits = {} THEN 0 ELSE CHOOSE i \in hits : \A j \in hits : i <= j

IsWord(b) == b \in WordBodies

\* index of the first <tool>\w+</tool> tag
FirstTool(resp) ==
  FirstOf({ i \in 1..Len(resp) : resp[i].tag = "tool" /\ IsWord(resp[i].body) })

\* the parameter a tag supplies: [set |-> TRUE, body] for the first tag of that
\* name, [set |-> FALSE] when the text has none (the key stays undefined)
NotSet == [set |-> FALSE]
ParamOf(resp, t) ==
  LET i == FirstOf({ j \in 1..Len(resp) : resp[j].tag = t })
  IN IF i = 0 THEN NotSet ELSE [set |-> TRUE, body |-> resp[i].body]

NoToolCall == [isNull |-> TRUE]

\* parseToolCall: null without a <tool>\w+</tool> tag, otherwise the first
\* such tag names the tool and the first tag of each parameter name is taken
parseToolCall(resp) ==
  LET i == FirstTool(resp)
  IN IF i = 0 THEN NoToolCall
     ELSE [isNull |-> FALSE, tool |-> resp[i].body,
           path |-> ParamOf(resp, "path"), content |-> ParamOf(resp, "content"),
           command |-> ParamOf(resp, "command"), sql |-> ParamOf(resp, "sql"),
           table |-> ParamOf(resp, "table"), value |-> ParamOf(resp, "value")]

\* JS truthiness of a string parameter: set and not the empty string
Truthy(param, empty) == param.set /\ param.body # empty

\* ---------------------------------------------------------------- parser on raw text
\* A raw model output as a sequence of tokens: the tag delimiters the regular
\* expressions look for, a word character (\w) and a blank (neither \w nor
\* part of a tag).  An unclosed or misnested tag is a delimiter without its mate.
WordChars == {"a"}
Tokens == {"<tool>", "</tool>", "<path>", "</path>", "<content>", "</content>", "a", " "}
Texts == UNION { [1..n -> Tokens] : n \in 0..MaxTextLen }

\* String.prototype.trim
RECURSIVE trim(_)
trim(str) ==
  IF str = << >> THEN str
  ELSE IF Head(str) = " " THEN trim(Tail(str))
  ELSE IF str[Len(str)] = " " THEN trim(SubSeq(str, 1, Len(str) - 1))
  ELSE str

\* variant: the tool name may be empty (\w* for \w+)
matchTool_EmptyName(str) ==
  LET hits == { i \in 1..Len(str) :
                  /\ str[i] = "<tool>"
                  /\ \E j \in (i + 1)..Len(str) :
                       /\ str[j] = "</tool>"
                       /\ \A k \in (i + 1)..(j - 1) : str[k] \in WordChars }
      i == FirstOf(hits)
      j == CHOOSE j \in (i + 1)..Len(str) : str[j] = "</tool>"
                                           /\ \A k \in (i + 1)..(j - 1) : str[k] \in WordChars
  IN IF i = 0 THEN [found |-> FALSE, group |-> << >>]
     ELSE [found |-> TRUE, group |-> SubSeq(str, i + 1, j - 1)]

\* response.match(/<tool>(\w+)<\/tool>/): the leftmost <tool> directly followed
\* by one or more word characters and </tool>
matchTool(str) ==
  LET hits == { i \in 1..Len(str) :
                  /\ str[i] = "<tool>"
                  /\ \E j \in (i + 2)..Len(str) :
                       /\ str[j] = "</tool>"
                       /\ \A k \in (i + 1)..(j - 1) : str[k] \in WordChars }
      i == FirstOf(hits)
      j == CHOOSE j \in (i + 2)..Len(str) : str[j] = "</tool>"
                                           /\ \A k \in (i + 1)..(j - 1) : str[k] \in WordChars
  IN IF i = 0 THEN [found |-> FALSE, group |-> << >>]
     ELSE [found |-> TRUE, group |-> SubSeq(str, i + 1, j - 1)]

\* response.match(/<name>([\s\S]*?)<\/name>/): the leftmost opening tag that
\* has a closing tag after it, up to the nearest closing tag (lazy)
matchParam(str, open, close) ==
  LET hits == { i \in 1..Len(str) :
                  str[i] = open /\ \E j \in (i + 1)..Len(str) : str[j] = close }
      i == FirstOf(hits)
      j == FirstOf({ j \in (i + 1)..Len(str) : str[j] = close })
  IN IF i = 0 THEN [found |-> FALSE, group |-> << >>]
     ELSE [found |-> TRUE, group |-> SubSeq(str, i + 1, j - 1)]

\* parseToolCall of the architecture benchmark on raw text: path is trimmed,
\* content is kept as written
parseToolCallText(str) ==
  LET toolMatch == matchTool(str)
      pathMatch == matchParam(str, "<path>", "</path>")
      contentMatch == matchParam(str, "<content>", "</content>")
  IN IF ~toolMatch.found THEN NoToolCall
     ELSE [isNull |-> FALSE, tool |-> toolMatch.group,
           path |-> IF pathMatch.found
                    THEN [set |-> TRUE, body |-> trim(pathMatch.group)] ELSE NotSet,
           content |-> IF contentMatch.found
                       THEN [set |-> TRUE, body |-> contentMatch.group] ELSE NotSet]

\* ---------------------------------------------------------------- answer extraction
Digits == {"0", "1", "2", "3", "4", "5", "6", "7", "8", "9"}
DigitVal(c) == CASE c = "0" -> 0 [] c = "1" -> 1 [] c = "2" -> 2 [] c = "3" -> 3
                 [] c = "4" -> 4 [] c = "5" -> 5 [] c = "6" -> 6 [] c = "7" -> 7
                 [] c = "8" -> 8 [] c = "9" -> 9

RECURSIVE RemoveCommas(_)
RemoveCommas(s) ==
  IF s = << >> THEN << >>
  ELSE IF Head(s) = "," THEN RemoveCommas(Tail(s))
  ELSE <<Head(s)>> \o RemoveCommas(Tail(s))

RECURSIVE TrimLeft(_)
TrimLeft(s) == IF s # << >> /\ Head(s) = " " THEN TrimLeft(Tail(s)) ELSE s

\* length of the longest prefix of s made of digits
RECURSIVE DigitRun(_)
DigitRun(s) == IF s # << >> /\ Head(s) \in Digits THEN 1 + DigitRun(Tail(s)) ELSE 0

RECURSIVE DigitsValue(_, _)
DigitsValue(s, acc) ==
  IF s = << >> THEN acc ELSE DigitsValue(Tail(s), 10 * acc + DigitVal(Head(s)))

\* value of the fraction digits f in units of 1/Scale (three places)
FractionValue(f) ==
  LET d(i) == IF i <= Len(f) THEN DigitVal(f[i]) ELSE 0
  IN (Scale \div 10) * d(1) + (Scale \div 100) * d(2) + (Scale \div 1000) * d(3)

\* parseFloat: the longest numeric prefix [-]digits[.digits] after leading
\* blanks, NaN when there is none
parseFloat(str) ==
  LET t == TrimLeft(str)
      neg == t # << >> /\ Head(t) = "-"
      u == IF neg THEN Tail(t) ELSE t
      n == DigitRun(u)
      rest == SubSeq(u, n + 1, Len(u))
      hasDot == rest # << >> /\ Head(rest) = "."
      f == IF hasDot THEN DigitRun(Tail(rest)) ELSE 0
      mag == DigitsValue(SubSeq(u, 1, n), 0) * Scale
             + (IF f > 0 THEN FractionValue(SubSeq(rest, 2, f + 1)) ELSE 0)
  IN IF n = 0 /\ f = 0 THEN NaN ELSE Num(IF neg THEN -mag ELSE mag)

\* extractNumericAnswer: null for an empty or non-numeric answer string
extractNumericAnswer(param) ==
  IF ~Truthy(param, << >>) THEN Null
  ELSE LET num == parseFloat(RemoveCommas(param.body))
       IN IF num.kind = "nan" THEN Null ELSE num

\* ---------------------------------------------------------------- tool executors
\* What one executor call does: the observation text it returns, or the
\* exception it lets escape (threw), and the workspace it leaves; hung is a
\* call that does not come back.
Returned(text, w) == [threw |-> FALSE, hung |-> FALSE, obs |-> text, ws |-> w]
Thrown(w) == [threw |-> TRUE, hung |-> FALSE, obs |-> "exception", ws |-> w]
Hangs(w) == [threw |-> FALSE, hung |-> TRUE, obs |-> "never returns", ws |-> w]

\* executeTool of the architecture benchmark (file tools)
read_file(tool, w) ==
  IF ~Truthy(tool.path, "") THEN Returned("Error: read_file requires path", w)
  ELSE IF ~existsSync(w, tool.path.body) THEN Returned("Error: File not found", w)
  ELSE IF IsDirectory(w, tool.path.body) THEN Returned("Error: is a directory", w)
  ELSE Returned("file content", w)

write_file(tool, w) ==
  IF ~Truthy(tool.path, "") THEN Returned("Error: write_file requires path", w)
  ELSE IF ~tool.content.set THEN Returned("Error: write_file requires content", w)
  ELSE LET made == mkdirSync(w, Parent(tool.path.body))
           wrote == writeFileSync(made.ws, tool.path.body)
       IN IF made.threw THEN Thrown(made.ws)
          ELSE IF wrote.threw THEN Thrown(wrote.ws)
          ELSE Returned("Written", wrote.ws)

list_files(tool, w) ==
  LET dir == IF Truthy(tool.path, "") THEN tool.path.body ELSE "."
  IN IF ~existsSync(w, dir) THEN Returned("Error: Directory not found", w)
     ELSE IF ~IsDirectory(w, dir) THEN Thrown(w)
     ELSE Returned("entries", w)

\* variant: the default branch throws instead of returning text
executeTool_UnknownThrows(tool, w) ==
  CASE tool.tool = "read_file" -> read_file(tool, w)
    [] tool.tool = "write_file" -> write_file(tool, w)
    [] tool.tool = "list_files" -> list_files(tool, w)
    [] tool.tool = "done" -> Returned("DONE", w)
    [] OTHER -> Thrown(w)

executeTool(tool, w) ==
  CASE tool.tool = "read_file" -> read_file(tool, w)
    [] tool.tool = "write_file" -> write_file(tool, w)
    [] tool.tool = "list_files" -> list_files(tool, w)
    [] tool.tool = "done" -> Returned("DONE", w)
    [] OTHER -> Returned("Unknown tool", w)

\* executeBashTool of the bash-agent-eval benchmark
BASH_ALLOWED_COMMANDS ==
  {"ls", "cat", "grep", "find", "head", "tail", "wc", "jq", "sort", "uniq",
   "awk", "cut", "tr", "echo", "expr", "bc"}

\* the programs /bin/sh starts for a command line handed to execSync: the
\* first word, and the word after each ";", "|", "&&", "||" and after find's
\* -exec
ProgramsStarted(command) ==
  { command[i] : i \in { j \in 1..Len(command) :
      j = 1 \/ command[j - 1] \in {";", "|", "&&", "||", "-exec"} } }

\* what the shell leaves behind: "cmd > p" creates or truncates p, "find p
\* -delete" and "...; rm p" remove p
ShellEffect(command, w) ==
  IF Len(command) >= 3 /\ command[2] = ">" /\ ~IsDirectory(w, command[3])
    /\ IsDirectory(w, Parent(command[3]))
  THEN [w EXCEPT ![command[3]] = "agent"]
  ELSE IF Len(command) >= 3 /\ command[1] = "find" /\ command[3] = "-delete"
  THEN [w EXCEPT ![command[2]] = "none"]
  ELSE IF Len(command) >= 4 /\ command[2] = ";" /\ command[3] = "rm"
  THEN [w EXCEPT ![command[4]] = "none"]
  ELSE w

\* exit: how the subprocess ended ("ok", "failed", "timeout"); execSync throws
\* for the last two and the catch block turns the error into text
executeBashTool(tool, w, exit) ==
  IF tool.tool = "answer" THEN Returned("ANSWER", w)
  ELSE IF tool.tool # "bash" THEN Returned("Unknown tool", w)
  ELSE IF ~Truthy(tool.command, << >>) THEN Returned("Error: bash requires command", w)
  ELSE IF tool.command.body[1] \notin BASH_ALLOWED_COMMANDS
       THEN Returned("Error: Command is not allowed", w)
  ELSE IF exit = "ok" THEN Returned("output", ShellEffect(tool.command.body, w))
  ELSE Returned("Error (exit)", ShellEffect(tool.command.body, w))

\* executeTool of the constrained benchmark: read_file and write_file go to fs
\* with whatever the call carries, without a parameter or directory check, and
\* nothing catches what fs throws (path.join(dir, undefined) is a TypeError,
\* readFileSync of a directory is EISDIR)
constrainedExecuteTool(tool, w) ==
  CASE tool.tool = "read_file" ->
         IF ~Truthy(tool.path, "") THEN Thrown(w)
         ELSE IF ~existsSync(w, tool.path.body) THEN Returned("Error: File not found", w)
         ELSE IF IsDirectory(w, tool.path.body) THEN Thrown(w)
         ELSE Returned("file content", w)
    [] tool.tool = "write_file" ->
         IF ~Truthy(tool.path, "") THEN Thrown(w)
         ELSE LET made == mkdirSync(w, Parent(tool.path.body))
                  wrote == writeFileSync(made.ws, tool.path.body)
              IN IF made.threw THEN Thrown(made.ws)
                 ELSE IF ~tool.content.set \/ wrote.threw THEN Thrown(made.ws)
                 ELSE Returned("Written", wrote.ws)
    [] tool.tool = "list_files" -> list_files(tool, w)
    [] tool.tool = "done" -> Returned("DONE", w)
    [] OTHER -> Returned("Unknown tool", w)

\* executeToolCall of the modular benchmark: the whole switch is inside
\* try/catch, so what fs throws comes back as the text "Tool error: ...";
\* run_command hands any command to execSync (timeout 30000) and turns its
\* failure into text as well
executeToolCall(tool, w, exit) ==
  CASE tool.tool = "read_file" ->
         IF ~Truthy(tool.path, "") THEN Returned("Tool error", w)
         ELSE IF ~existsSync(w, tool.path.body) THEN Returned("Error: File not found", w)
         ELSE IF IsDirectory(w, tool.path.body) THEN Returned("Tool error", w)
         ELSE Returned("file content", w)
    [] tool.tool = "edit_file" ->
         IF ~Truthy(tool.path, "") THEN Returned("Tool error", w)
         ELSE LET made == mkdirSync(w, Parent(tool.path.body))
                  wrote == writeFileSync(made.ws, tool.path.body)
              IN IF made.threw THEN Returned("Tool error", made.ws)
                 ELSE IF ~tool.content.set \/ wrote.threw
                      THEN Returned("Tool error", made.ws)
                 ELSE Returned("Successfully wrote", wrote.ws)
    [] tool.tool = "run_command" ->
         IF ~tool.command.set THEN Returned("Command error", w)
         ELSE IF exit = "ok" THEN Returned("Command output", ShellEffect(tool.command.body, w))
         ELSE Returned("Command error", ShellEffect(tool.command.body, w))
    [] tool.tool = "done" -> Returned("DONE", w)
    [] OTHER -> Returned("Unknown tool", w)

\* variant: every statement is let through
IsReadStatement_Any(sql) == TRUE

\* /^\s*(SELECT|WITH)\b/i.test(sql)
IsReadStatement(sql) == sql # << >> /\ sql[1] \in {"SELECT", "WITH"}

\* db.prepare(sql).all() on a connection opened with the given readonly
\* option: a statement that writes (DROP, or DELETE after a WITH clause) is
\* refused by a read-only connection and changes the store otherwise.  The
\* call is synchronous and has no time limit: a statement that does not end
\* (exit "timeout", e.g. an unbounded recursive WITH) is stopped by nothing
runStatement(sql, w, readonly, exit) ==
  LET writes == \E i \in 1..Len(sql) : sql[i] \in {"DROP", "DELETE"}
  IN IF writes /\ readonly THEN Returned("Error: message", w)
     ELSE IF exit = "timeout" THEN Hangs(w)
     ELSE IF exit # "ok" THEN Returned("Error: message", w)
     ELSE Returned("rows", IF writes THEN [w EXCEPT !["data.sqlite"] = "agent"] ELSE w)

\* executeSqlTool of the bash-agent-eval benchmark; runAgent opens the store
\* with { readonly: true }, exit "failed" is a statement the engine rejects
executeSqlTool(tool, w, exit) ==
  CASE tool.tool = "answer" -> Returned("ANSWER", w)
    [] tool.tool = "tables" -> Returned("table names", w)
    [] tool.tool \in {"schema", "sample"} ->
         IF ~Truthy(tool.table, "") THEN Returned("Error: requires table", w)
         ELSE IF exit = "ok" THEN Returned("rows", w)
         ELSE Returned("Error: message", w)
    [] tool.tool = "query" ->
         IF ~Truthy(tool.sql, << >>) THEN Returned("Error: query requires sql", w)
         ELSE IF ~IsReadStatement(tool.sql.body)
              THEN Returned("Error: Only SELECT or WITH statements are allowed", w)
         ELSE runStatement(tool.sql.body, w, TRUE, exit)
    [] OTHER -> Returned("Unknown tool", w)

\* the tool names each executor has a branch for
ArchVocabulary == {"read_file", "write_file", "list_files", "done"}
BashVocabulary == {"bash", "answer"}
SqlVocabulary == {"query", "schema", "sample", "tables", "answer"}

Exits == {"ok", "failed", "timeout"}
\* only the bash and sql executors start a subprocess or a statement
ExitsOf(h) == IF h \in {"bash", "modular"} THEN Exits ELSE {"ok"}

\* ---------------------------------------------------------------- scorer
\* variant: the tolerance boundary is excluded
WithinTolerance_Strict(actual, expected, tol) ==
  actual.kind = "num" /\ Abs(actual.v - expected) < tol

\* variant: only a difference equal to the tolerance passes
WithinTolerance_Exact(actual, expected, tol) ==
  actual.kind = "num" /\ Abs(actual.v - expected) = tol

\* variant: the difference is taken without Math.abs
WithinTolerance_NoAbs(actual, expected, tol) ==
  actual.kind = "num" /\ actual.v - expected <= tol

\* a - b <= tol on JS numbers: every comparison with NaN is false
WithinTolerance(actual, expected, tol) ==
  actual.kind = "num" /\ Abs(actual.v - expected) <= tol

\* runBenchmark: diff = Math.abs((validation.actual ?? 0) - expected);
\* pass = diff <= task.tolerance
archPass(actual, expected, tol) ==
  WithinTolerance(IF actual.kind \in {"undefined", "null"} THEN Num(0) ELSE actual,
                  expected, tol)

\* bash-agent-eval runAgent: pass = answer !== null && |answer - expected| <= tolerance
bashPass(ans, expected, tol) ==
  ans.kind # "null" /\ WithinTolerance(ans, expected, tol)

\* what validate() can return for a task: a number the artifact produced (on
\* the tolerance boundary, just outside it, the 999.5 and 998 of the ARPU
\* scenario, NaN when the printed result does not parse), or a failure
Actuals(task) ==
  { Num(task.expected - task.tolerance), NaN }
  \cup (IF task.id = "active_user_arpu" THEN {Num(999500), Num(998000)}
        ELSE {Num(task.expected - task.tolerance - 1)})
ValidationResults(task) ==
  { [valid |-> TRUE, actual |-> a, error |-> NoError] : a \in Actuals(task) }
  \cup { [valid |-> FALSE, actual |-> Undefined, error |-> "validation error"] }

\* ---------------------------------------------------------------- agent loop
MaxTurnsArch == "Max turns exceeded"
MaxTurnsBash == "Max turns exceeded without answer"
GatewayError == "gateway error"

Msg(r, c) == [role |-> r, content |-> c]
TaskPrompt == Msg("user", "task")
Corrective == Msg("user", "Use a tool")
\* messages.push({ role: 'user', content: result }); the conversation keeps the
\* kind of each entry, not its text
Observation(text) == Msg("user", "tool result")

\* variant: the loop runs one turn too many
LoopContinues_OffByOne(t, n) == t <= n + 1

\* for (let turn = 1; turn <= maxTurns; turn++)
LoopContinues(t, n) == t <= n

\* variant: no tool ends the loop
IsTerminal_Never(h, tool) == FALSE

\* the terminal action: done for the file tools, answer for bash / sql
IsTerminal(h, tool) == tool.tool = (IF h = "bash" THEN "answer" ELSE "done")

\* variant: no corrective turn is appended
NoToolMessages_Silent(msgs) == msgs

\* if (!tool) { messages.push(corrective); continue; }
NoToolMessages(msgs) == Append(msgs, Corrective)

\* variant: the validator also runs for a failed agent run
SkipsValidation_Never(ok) == FALSE

\* if (!agentResult.success) { results.push(failure); continue; }
SkipsValidation(ok) == ~ok

Outputs(h) == IF h = "bash" THEN BashOutputs ELSE ArchOutputs

\* the executor a harness dispatches to
Execute(h, c, tool, w, exit) ==
  IF h = "arch" THEN executeTool(tool, w)
  ELSE IF h = "constrained" THEN constrainedExecuteTool(tool, w)
  ELSE IF h = "modular" THEN executeToolCall(tool, w, exit)
  ELSE IF AgentTypeOf(c) = "bash" THEN executeBashTool(tool, w, exit)
  ELSE executeSqlTool(tool, w, exit)

\* ---------------------------------------------------------------- observation size
\* The length of an observation: raw is the number of characters the tool
\* produced (file content, directory listing, subprocess output, result rows);
\* the fixed texts (errors, "Written", "DONE") count as one character.
READ_LIMIT == 8000
OUTPUT_LIMIT == 30000
RESULT_LIMIT == 3000
RawLengths == {1, RESULT_LIMIT, RESULT_LIMIT + 1, READ_LIMIT, READ_LIMIT + 1,
               OUTPUT_LIMIT, OUTPUT_LIMIT + 1}

Size(n, m) == [len |-> n, marked |-> m]

\* if (output.length <= limit) return output;
\* return output.slice(0, limit) + marker      (len leaves the marker out)
truncateOutput(n, limit) == IF n <= limit THEN Size(n, FALSE) ELSE Size(limit, TRUE)

\* executeTool (file tools): only read_file cuts what it returns
fileToolSize(tool, obs, raw) ==
  IF tool.tool = "read_file" /\ obs = "file content" THEN truncateOutput(raw, READ_LIMIT)
  ELSE IF tool.tool = "list_files" /\ obs = "entries" THEN Size(raw, FALSE)
  ELSE Size(1, FALSE)

\* executeBashTool cuts stdout and the error text, executeSqlTool cuts the
\* rows of query only; tables, schema and sample return what they built
bashSqlSize(agentType, tool, obs, raw) ==
  IF agentType = "bash"
  THEN IF obs \in {"output", "Error (exit)"} THEN truncateOutput(raw, OUTPUT_LIMIT)
       ELSE Size(1, FALSE)
  ELSE IF tool.tool = "query" /\ obs = "rows" THEN truncateOutput(raw, OUTPUT_LIMIT)
  ELSE IF tool.tool \in {"tables", "schema", "sample"} /\ obs \in {"table names", "rows"}
  THEN Size(raw, FALSE)
  ELSE Size(1, FALSE)

\* what the loop appends: the executor's text, which the modular benchmark's
\* loop cuts once more (if (result.length > 3000) ...)
observationSize(h, c, tool, obs, raw) ==
  IF h = "bash" THEN bashSqlSize(AgentTypeOf(c), tool, obs, raw)
  ELSE IF h = "modular"
  THEN truncateOutput(IF obs \in {"file content", "Command output", "Command error"}
                      THEN raw ELSE 1, RESULT_LIMIT)
  ELSE fileToolSize(tool, obs, raw)

VARIABLES
  harness,      \* which benchmark script runs: "arch" or "bash"
  maxTurns,     \* --max-turns
  apiKey,       \* whether the provider's API key is set in the environment
  idx,          \* combination the orchestrator is at (1-based)
  pc,           \* "start", "loop", "handle", "returned", "finished", "aborted",
                \* "blocked"
  turn,         \* the loop variable of runAgent
  turns,        \* the turns value runAgent reports
  success,      \* agentResult.success (arch)
  error,        \* the error runAgent reports, NoError when unset
  answer,       \* bash-agent-eval: the extracted answer, Null when unset
  messages,     \* the conversation of the current run, << >> once runAgent is left
  response,     \* the model output being handled, << >> outside a turn
  ws,           \* the sandbox directory
  llmCalls,     \* callLLM invocations of the current run
  toolRuns,     \* executor invocations of the current run
  validations,  \* config.validate invocations of the current run
  observation,  \* text the executor returned last in the current run
  abortCause,   \* what threw when pc = "aborted": "setup", "credentials", "gateway", "tool"
  results,      \* the results array being collected
  mainResults,  \* the results main() received, printed and saved
  expected,     \* the expected value of the current run, -1 before the first run
  op,           \* a function taken on its own: "none", or its name once applied
  arg,          \* its input
  ret           \* its result

\* the variables of a function taken on its own
pure == <<op, arg, ret>>

\* the variables of the benchmark run
run == <<harness, maxTurns, apiKey, idx, pc, turn, turns, success, error, answer,
         messages, response, ws, llmCalls, toolRuns, validations, observation,
         abortCause, results, mainResults, expected>>

vars == <<run, pure>>

runVars == <<turn, turns, success, error, answer, messages, response, ws,
             llmCalls, toolRuns, validations, observation>>
config == <<harness, maxTurns, apiKey>>

Last(seq) == seq[Len(seq)]

Init ==
  /\ harness \in {"arch", "bash"}
  /\ maxTurns \in 0..MaxTurnsBound
  /\ apiKey \in BOOLEAN
  /\ idx = 1
  /\ pc = "start"
  /\ turn = 1
  /\ turns = 0
  /\ success = FALSE
  /\ error = NoError
  /\ answer = Null
  /\ messages = << >>
  /\ response = << >>
  /\ ws = FreshWorkspace
  /\ llmCalls = 0
  /\ toolRuns = 0
  /\ validations = 0
  /\ observation = "none"
  /\ abortCause = "none"
  /\ results = << >>
  /\ mainResults = << >>
  /\ expected = -1
  /\ op = "none" /\ arg = << >> /\ ret = << >>

\* variant: the turn budget is reported instead of the turns used
BenchmarkResult_Budget(c, p, act, t, e) ==
  [combo |-> c, pass |-> p, expected |-> expected,
   tolerance |-> TaskOf(c).tolerance, actual |-> act, turns |-> maxTurns, error |-> e]

BenchmarkResult(c, p, act, t, e) ==
  [combo |-> c, pass |-> p, expected |-> expected,
   tolerance |-> TaskOf(c).tolerance, actual |-> act, turns |-> t, error |-> e]

\* runBenchmark / main: the next combination starts.  arch: setupSandboxDir
\* gives the run a fresh fixture copy; bash: runAgent's prologue, the sandbox
\* directory is the one main() created.
StartRun ==
  /\ pc = "start" /\ idx <= NumCombos
  /\ ws' = IF harness = "arch" THEN setupSandboxDir(ws) ELSE ws
  /\ messages' = <<TaskPrompt>>
  /\ turn' = 1 /\ turns' = 0 /\ success' = FALSE /\ error' = NoError /\ answer' = Null
  /\ response' = << >>
  /\ llmCalls' = 0 /\ toolRuns' = 0 /\ validations' = 0
  /\ observation' = "none"
  /\ expected' = expectedValue(TaskOf(idx), ws)
  /\ pc' = "loop"
  /\ UNCHANGED <<config, pure, idx, abortCause, results, mainResults>>

\* infrastructure error: setupSandboxDir (arch) or opening the database (bash
\* harness, sql agent) throws; nothing catches it before main().catch
SetupFails ==
  /\ pc = "start" /\ idx <= NumCombos
  /\ harness = "arch" \/ AgentTypeOf(idx) = "sql"
  /\ pc' = "aborted"
  /\ abortCause' = "setup"
  /\ UNCHANGED <<config, pure, expected, idx, runVars, results, mainResults>>

\* every combination is done: runBenchmark returns results to main
Finish ==
  /\ pc = "start" /\ idx > NumCombos
  /\ mainResults' = results
  /\ pc' = "finished"
  /\ UNCHANGED <<config, pure, expected, idx, runVars, abortCause, results>>

\* bash-agent-eval: runAgent computes pass and returns, main pushes the result
\* and goes on to the next combination
PushBashResult(ans, t, e) ==
  /\ results' = Append(results,
       BenchmarkResult(idx, bashPass(ans, expected, TaskOf(idx).tolerance),
                       ans, t, e))
  /\ idx' = idx + 1
  /\ pc' = "start"

\* if (answer === null && turns >= maxTurns) error = 'Max turns exceeded without answer'
BashLoopError(ans, t) == IF ans.kind = "null" /\ t >= maxTurns THEN MaxTurnsBash ELSE NoError

\* one gateway call that answers: the output is appended as an assistant turn
CallLLM ==
  /\ pc = "loop" /\ LoopContinues(turn, maxTurns)
  /\ apiKey
  /\ \E out \in Outputs(harness) :
       /\ response' = out
       /\ messages' = Append(messages, Msg("assistant", "response"))
  /\ llmCalls' = llmCalls + 1
  /\ turns' = IF harness = "bash" THEN turn ELSE turns
  /\ pc' = "handle"
  /\ UNCHANGED <<config, pure, expected, idx, turn, success, error, answer, ws, toolRuns, validations,
                 observation, abortCause, results, mainResults>>

\* one gateway call that throws (API key not set, HTTP error status).  arch:
\* nothing catches it; bash: runAgent's catch records e.message
GatewayFails ==
  /\ pc = "loop" /\ LoopContinues(turn, maxTurns)
  /\ llmCalls' = llmCalls + 1
  /\ IF harness = "arch"
     THEN /\ pc' = "aborted"
          /\ abortCause' = IF apiKey THEN "gateway" ELSE "credentials"
          /\ UNCHANGED <<idx, turns, error, results>>
     ELSE /\ turns' = turn
          /\ error' = GatewayError
          /\ PushBashResult(answer, turn, GatewayError)
          /\ UNCHANGED abortCause
  /\ messages' = << >> /\ observation' = "none"
  /\ UNCHANGED <<config, pure, expected, turn, success, answer, response, ws, toolRuns,
                 validations, mainResults>>

\* variant: the turn with an unusable output is issued again
NoTool_Repeats ==
  /\ pc = "handle"
  /\ parseToolCall(response).isNull
  /\ messages' = NoToolMessages(messages)
  /\ response' = << >>
  /\ pc' = "loop"
  /\ UNCHANGED <<config, pure, expected, idx, turn, turns, success, error, answer, ws,
                 llmCalls, toolRuns, validations, observation, abortCause, results,
                 mainResults>>

\* the output has no <tool> tag: corrective user turn, next turn
NoTool ==
  /\ pc = "handle"
  /\ parseToolCall(response).isNull
  /\ messages' = NoToolMessages(messages)
  /\ response' = << >>
  /\ turn' = turn + 1
  /\ pc' = "loop"
  /\ UNCHANGED <<config, pure, expected, idx, turns, success, error, answer, ws, llmCalls,
                 toolRuns, validations, observation, abortCause, results, mainResults>>

\* the parsed tool is the terminal action.  arch: return {success: true, turns:
\* turn}; bash: the answer is extracted, the loop is left and the run returns
Terminal ==
  /\ pc = "handle"
  /\ LET tool == parseToolCall(response) IN
       /\ ~tool.isNull
       /\ IsTerminal(harness, tool)
       /\ IF harness = "arch"
          THEN /\ success' = TRUE
               /\ turns' = turn
               /\ pc' = "returned"
               /\ UNCHANGED <<idx, error, answer, results>>
          ELSE LET ans == extractNumericAnswer(tool.value) IN
               /\ answer' = ans
               /\ error' = BashLoopError(ans, turns)
               /\ PushBashResult(ans, turns, BashLoopError(ans, turns))
               /\ UNCHANGED <<turns, success>>
  /\ response' = << >> /\ messages' = << >> /\ observation' = "none"
  /\ UNCHANGED <<config, pure, expected, turn, ws, llmCalls, toolRuns, validations,
                 abortCause, mainResults>>

\* any other tool is executed and its result appended as a user turn
ToolReturns ==
  /\ pc = "handle"
  /\ LET tool == parseToolCall(response) IN
       /\ ~tool.isNull
       /\ ~IsTerminal(harness, tool)
       /\ \E exit \in ExitsOf(harness) :
            LET r == Execute(harness, idx, tool, ws, exit) IN
              /\ ~r.threw /\ ~r.hung
              /\ ws' = r.ws
              /\ observation' = r.obs
              /\ messages' = Append(messages, Observation(r.obs))
  /\ response' = << >>
  /\ toolRuns' = toolRuns + 1
  /\ turn' = turn + 1
  /\ pc' = "loop"
  /\ UNCHANGED <<config, pure, expected, idx, turns, success, error, answer, llmCalls,
                 validations, abortCause, results, mainResults>>

\* the executor does not come back: the loop stays inside executeSqlTool
ToolHangs ==
  /\ pc = "handle"
  /\ LET tool == parseToolCall(response) IN
       /\ ~tool.isNull
       /\ ~IsTerminal(harness, tool)
       /\ \E exit \in ExitsOf(harness) : Execute(harness, idx, tool, ws, exit).hung
  /\ pc' = "blocked"
  /\ toolRuns' = toolRuns + 1
  /\ UNCHANGED <<config, pure, expected, idx, turn, turns, success, error, answer,
                 messages, response, ws, llmCalls, validations, observation,
                 abortCause, results, mainResults>>

\* the executor throws.  arch: the exception leaves runAgent and runBenchmark;
\* bash: runAgent's catch records it
ToolThrows ==
  /\ pc = "handle"
  /\ LET tool == parseToolCall(response) IN
       /\ ~tool.isNull
       /\ ~IsTerminal(harness, tool)
       /\ \E exit \in ExitsOf(harness) :
            LET r == Execute(harness, idx, tool, ws, exit) IN
              /\ r.threw
              /\ ws' = r.ws
  /\ toolRuns' = toolRuns + 1
  /\ IF harness = "arch"
     THEN /\ pc' = "aborted"
          /\ abortCause' = "tool"
          /\ UNCHANGED <<idx, error, results>>
     ELSE /\ error' = "exception"
          /\ PushBashResult(answer, turns, "exception")
          /\ UNCHANGED abortCause
  /\ response' = << >> /\ messages' = << >> /\ observation' = "none"
  /\ UNCHANGED <<config, pure, expected, turn, turns, success, answer, llmCalls,
                 validations, mainResults>>

\* the loop condition fails.  arch: return {success: false, turns: maxTurns,
\* error: 'Max turns exceeded'}; bash: the check after the loop, then return
LoopExhausted ==
  /\ pc = "loop" /\ ~LoopContinues(turn, maxTurns)
  /\ IF harness = "arch"
     THEN /\ success' = FALSE
          /\ turns' = maxTurns
          /\ error' = MaxTurnsArch
          /\ pc' = "returned"
          /\ UNCHANGED <<idx, results>>
     ELSE /\ error' = BashLoopError(answer, turns)
          /\ PushBashResult(answer, turns, BashLoopError(answer, turns))
          /\ UNCHANGED <<turns, success>>
  /\ messages' = << >> /\ observation' = "none"
  /\ UNCHANGED <<config, pure, expected, turn, answer, response, ws, llmCalls, toolRuns,
                 validations, abortCause, mainResults>>

\* runBenchmark, agent failed: the failure is recorded without validation
RecordFailure ==
  /\ pc = "returned" /\ SkipsValidation(success)
  /\ results' = Append(results, BenchmarkResult(idx, FALSE, Undefined, turns, error))
  /\ idx' = idx + 1
  /\ pc' = "start"
  /\ UNCHANGED <<config, pure, expected, runVars, abortCause, mainResults>>

\* runBenchmark, agent done: config.validate runs and the result is scored
Validate ==
  /\ pc = "returned" /\ ~SkipsValidation(success)
  /\ validations' = validations + 1
  /\ \E v \in ValidationResults(TaskOf(idx)) :
       results' = Append(results,
         IF ~v.valid
         THEN BenchmarkResult(idx, FALSE, Undefined, turns, v.error)
         ELSE BenchmarkResult(idx,
                archPass(v.actual, expected, TaskOf(idx).tolerance),
                v.actual, turns, NoError))
  /\ idx' = idx + 1
  /\ pc' = "start"
  /\ UNCHANGED <<config, pure, expected, turn, turns, success, error, answer, messages, response, ws,
                 llmCalls, toolRuns, observation, abortCause, mainResults>>

Next ==
  \/ StartRun
  \/ SetupFails
  \/ Finish
  \/ CallLLM
  \/ GatewayFails
  \/ NoTool
  \/ Terminal
  \/ ToolReturns
  \/ ToolHangs
  \/ ToolThrows
  \/ LoopExhausted
  \/ RecordFailure
  \/ Validate

Spec == Init /\ [][Next]_vars

\* ---------------------------------------------------------------- functions on their own
\* the benchmark is not running
Idle ==
  /\ harness = "arch" /\ maxTurns = 0 /\ apiKey = FALSE
  /\ idx = 1 /\ pc = "idle"
  /\ turn = 1 /\ turns = 0 /\ success = FALSE /\ error = NoError /\ answer = Null
  /\ messages = << >> /\ response = << >> /\ ws = FreshWorkspace
  /\ llmCalls = 0 /\ toolRuns = 0 /\ validations = 0
  /\ observation = "none" /\ abortCause = "none"
  /\ results = << >> /\ mainResults = << >>
  /\ expected = -1

\* the executors given any sequence of tool calls on one workspace: arg is the
\* harness and the agent type (by combination), ret the last call and its
\* observation
ToolInit ==
  /\ Idle /\ op = "none"
  /\ ret = [obs |-> "none", call |-> NoToolCall, size |-> Size(0, FALSE)]
  /\ arg \in { [h |-> "arch", c |-> 1], [h |-> "bash", c |-> 1], [h |-> "bash", c |-> 2],
               [h |-> "constrained", c |-> 1], [h |-> "modular", c |-> 1] }

RunTool ==
  /\ pc = "idle" /\ arg \in [h : {"arch", "bash", "constrained", "modular"}, c : 1..2]
  /\ \E out \in Outputs(arg.h) \cup EscapingOutputs(arg.h) \cup ProbingOutputs(arg.h) :
       LET tool == parseToolCall(out) IN
         /\ ~tool.isNull
         /\ ~IsTerminal(arg.h, tool)
         /\ \E exit \in ExitsOf(arg.h) :
              LET r == Execute(arg.h, arg.c, tool, ws, exit) IN
                /\ ws' = r.ws
                /\ \E raw \in RawLengths :
                     ret' = [obs |-> r.obs, call |-> tool,
                             size |-> observationSize(arg.h, arg.c, tool, r.obs, raw)]
         /\ op' = tool.tool
  /\ UNCHANGED <<config, idx, pc, turn, turns, success, error, answer, messages,
                 response, llmCalls, toolRuns, validations, observation, abortCause,
                 results, mainResults, expected, arg>>

ToolNext == RunTool

ToolSpec == ToolInit /\ [][ToolNext]_vars

\* setupSandboxDir called for one run after another while the clock advances:
\* arg is Date.now(), ret.dirOf the directory each run was given, ret.owner the
\* run whose files each directory holds (0: the directory does not exist)
SANDBOXES == {"app-typed", "warehouse-dbt"}
RunIds == [sandbox : SANDBOXES, now : 0..MaxClock]

\* runId = `${sandboxId}-${model}-${Date.now()}`, the model being the same for
\* every run of an invocation
runId(sandboxId, now) == [sandbox |-> sandboxId, now |-> now]

SetupInit ==
  /\ Idle /\ op = "none" /\ arg = 0
  /\ ret = [dirOf |-> << >>, owner |-> [d \in RunIds |-> 0]]

\* Date.now() moves on
ClockTick ==
  /\ pc = "idle" /\ arg \in 0..(MaxClock - 1)
  /\ arg' = arg + 1
  /\ UNCHANGED <<run, op, ret>>

\* setupSandboxDir: an existing directory of that name is removed, then the
\* directory is created and filled for the new run
SetupRun ==
  /\ pc = "idle" /\ arg \in 0..MaxClock
  /\ Len(ret.dirOf) < MaxRuns
  /\ \E sandboxId \in SANDBOXES :
       LET sandboxDir == runId(sandboxId, arg) IN
         ret' = [dirOf |-> Append(ret.dirOf, sandboxDir),
                 owner |-> [ret.owner EXCEPT ![sandboxDir] = Len(ret.dirOf) + 1]]
  /\ op' = "setupSandboxDir"
  /\ UNCHANGED <<run, arg>>

SetupNext == ClockTick \/ SetupRun

SetupSpec == SetupInit /\ [][SetupNext]_vars

\* ---------------------------------------------------------------- expected values
\* Datasets: time stamps are days.  Each table is a sequence of rows.
UsageRows == { [user_id |-> "u1", created_at |-> 0],
               [user_id |-> "u1", created_at |-> 40],
               [user_id |-> "u2", created_at |-> 40] }
UserRow1 == [id |-> "u1", organization_id |-> "o1", stripe_customer_id |-> "c1"]
UserRow2 == [id |-> "u2", organization_id |-> "o2", stripe_customer_id |-> "c2"]
InvoiceRows ==
  << [customer_id |-> "c1", status |-> "paid", amount_paid |-> 1000, created_at |-> 40],
     [customer_id |-> "c2", status |-> "paid", amount_paid |-> 501, created_at |-> 0],
     [customer_id |-> "c1", status |-> "open", amount_paid |-> 300, created_at |-> 36] >>
SubscriptionRows ==
  << [customer_id |-> "c2", status |-> "active", created_at |-> 0,
       cancel_at_period_end |-> TRUE],
     [customer_id |-> "c1", status |-> "canceled", created_at |-> 40,
       cancel_at_period_end |-> FALSE] >>

\* the rows of table, in order, whose index is in keep
RECURSIVE Pick(_, _)
Pick(table, keep) ==
  IF table = << >> THEN << >>
  ELSE LET n == Len(table)
           front == Pick(SubSeq(table, 1, n - 1), keep)
       IN IF n \in keep THEN Append(front, table[n]) ELSE front

DataBundles ==
  [ api_usage : UNION { [1..n -> UsageRows] : n \in 0..MaxRows },
    users : { << >>, <<UserRow1>>, <<UserRow1, UserRow2>> },
    invoices : { Pick(InvoiceRows, keep) : keep \in SUBSET (1..3) },
    subscriptions : { Pick(SubscriptionRows, keep) : keep \in SUBSET (1..2) },
    organizations : { << >>, <<"o1">>, <<"o1", "o2">> } ]

DriftModes == {"none", "stripe-lag", "missing-mapping"}
\* values Date.now() can return
Clocks == {50, 90}

MaxOf(S) == CHOOSE x \in S : \A y \in S : x >= y
\* Math.round(a / b) for a >= 0, b > 0
RoundDiv(a, b) == (2 * a + b) \div (2 * b)

\* rows created more than 7 days before the latest row of the table
Lagged(table) ==
  IF table = << >> THEN table
  ELSE LET cutoff == MaxOf({ table[i].created_at : i \in DOMAIN table }) - 7
       IN Pick(table, { i \in DOMAIN table : table[i].created_at < cutoff })

applyDrift(data, drift) ==
  CASE drift = "none" -> data
    [] drift = "stripe-lag" ->
         [data EXCEPT !.invoices = Lagged(data.invoices),
                      !.subscriptions = Lagged(data.subscriptions)]
    [] drift = "missing-mapping" ->
         [data EXCEPT !.users =
            [i \in DOMAIN data.users |->
               IF (i - 1) % 20 = 0
               THEN [data.users[i] EXCEPT !.stripe_customer_id = "missing"]
               ELSE data.users[i]]]

\* variant: the anchor is always the current time
getAnchorDate_Now(apiUsage, now) == now

\* getAnchorDate: the latest api_usage row, Date.now() for an empty table
getAnchorDate(apiUsage, now) ==
  IF Len(apiUsage) = 0 THEN now
  ELSE MaxOf({ apiUsage[i].created_at : i \in DOMAIN apiUsage })

\* total amount_paid of the paid invoices of the given customers
RECURSIVE PaidTotal(_, _)
PaidTotal(invoices, customers) ==
  IF invoices = << >> THEN 0
  ELSE (IF Head(invoices).status = "paid" /\ Head(invoices).customer_id \in customers
        THEN Head(invoices).amount_paid ELSE 0)
       + PaidTotal(Tail(invoices), customers)

\* sum over the users of the given organizations of paidByCustomer
RECURSIVE OrgLtvTotal(_, _, _)
OrgLtvTotal(users, orgIds, invoices) ==
  IF users = << >> THEN 0
  ELSE (IF Head(users).organization_id \in orgIds
        THEN PaidTotal(invoices, {Head(users).stripe_customer_id}) ELSE 0)
       + OrgLtvTotal(Tail(users), orgIds, invoices)

\* buildTasks: the three expected values (the churn rate in units of 1/10000)
buildTasks(data, now) ==
  LET anchor == getAnchorDate(data.api_usage, now)
      since == anchor - 30
      users == data.users
      activeUserIds == { data.api_usage[i].user_id :
                           i \in { j \in DOMAIN data.api_usage :
                                     data.api_usage[j].created_at >= since } }
      activeUserCustomerIds == { users[i].stripe_customer_id :
                                   i \in { j \in DOMAIN users : users[j].id \in activeUserIds } }
      paidRevenueForActiveUsers == PaidTotal(data.invoices, activeUserCustomerIds)
      activeUserCount == Cardinality(activeUserIds)
      orgIds == { data.organizations[i] :
                    i \in { j \in DOMAIN data.organizations :
                              \E k \in DOMAIN users :
                                users[k].organization_id = data.organizations[j] } }
      activeSubCustomerIds == { data.subscriptions[i].customer_id :
                                  i \in { j \in DOMAIN data.subscriptions :
                                            data.subscriptions[j].status = "active" } }
      churnedOrgs == Cardinality({ o \in orgIds :
                       \A k \in DOMAIN users :
                         users[k].organization_id = o =>
                           /\ users[k].id \notin activeUserIds
                           /\ users[k].stripe_customer_id \notin activeSubCustomerIds })
  IN [ active_user_arpu |-> IF activeUserCount = 0 THEN 0
                            ELSE RoundDiv(paidRevenueForActiveUsers, activeUserCount),
       org_churn_rate |-> IF orgIds = {} THEN 0
                          ELSE RoundDiv(churnedOrgs * 10000, Cardinality(orgIds)),
       avg_org_ltv |-> IF orgIds = {} THEN 0
                       ELSE RoundDiv(OrgLtvTotal(users, orgIds, data.invoices),
                                     Cardinality(orgIds)) ]

\* TASKS, churn_rate of the single-table benchmark: expectedValue() on the
\* subscriptions table, in units of 1/10000; 0 / 0 is NaN and stays NaN
\* through Math.round
TASKS_churn_rate(subscriptions) ==
  LET active == { i \in DOMAIN subscriptions : subscriptions[i].status = "active" }
      churning == Cardinality({ i \in active : subscriptions[i].cancel_at_period_end })
  IN IF active = {} THEN NaN ELSE Num(RoundDiv(churning * 10000, Cardinality(active)))

\* the expected values computed, twice, from one dataset under one drift
\* mode: arg is the dataset and the mode, ret the values computed so far
DataInit ==
  /\ Idle /\ op = "none" /\ ret = << >>
  /\ arg \in [data : DataBundles, drift : DriftModes]

Compute ==
  /\ pc = "idle" /\ op \in {"none", "buildTasks"} /\ Len(ret) < 2
  /\ \E now \in Clocks :
       ret' = Append(ret, buildTasks(applyDrift(arg.data, arg.drift), now))
  /\ op' = "buildTasks"
  /\ UNCHANGED <<run, arg>>

\* the single-table benchmark computes its churn rate from the same
\* subscriptions table
ComputeChurnRate ==
  /\ pc = "idle" /\ op = "none"
  /\ op' = "churn_rate"
  /\ ret' = <<TASKS_churn_rate(arg.data.subscriptions)>>
  /\ UNCHANGED <<run, arg>>

DataNext == Compute \/ ComputeChurnRate

DataSpec == DataInit /\ [][DataNext]_vars

\* the parser given any raw text
ParserInit == Idle /\ op = "none" /\ arg \in Texts /\ ret = << >>

ParseText ==
  /\ op = "none"
  /\ op' = "parseToolCall"
  /\ ret' = parseToolCallText(arg)
  /\ UNCHANGED <<run, arg>>

ParserNext == ParseText

ParserSpec == ParserInit /\ [][ParserNext]_vars

\* ---------------------------------------------------------------- validators
\* file names are sequences of tokens ("churn_a.sql" is churn _ a .sql), the
\* task is org_churn_rate with sqlFile fct_org_churn_rate.sql
SqlTask ==
  [id |-> <<"org", "_", "churn", "_", "rate">>,
   sqlFile |-> <<"fct", "_", "org", "_", "churn", "_", "rate", ".sql">>]

\* task.sqlFile.replace(/^(stg_|fct_|dim_)/, '').replace(/\.sql$/, '')
baseName(task) ==
  LET s == task.sqlFile
      t == IF Len(s) >= 2 /\ s[1] \in {"stg", "fct", "dim"} /\ s[2] = "_"
           THEN SubSeq(s, 3, Len(s)) ELSE s
  IN IF t # << >> /\ t[Len(t)] = ".sql" THEN SubSeq(t, 1, Len(t) - 1) ELSE t

\* the exact names tried first, in order
variations(task) ==
  LET b == baseName(task) IN
    << task.sqlFile, b \o <<".sql">>, <<"fct", "_">> \o b \o <<".sql">>,
       <<"stg", "_">> \o b \o <<".sql">>, <<"dim", "_">> \o b \o <<".sql">>,
       <<"metric", "_">> \o b \o <<".sql">>, b \o <<"_", "metric", ".sql">> >>

\* scoreFile of the relaxed matching
scoreFile(task, file) ==
  LET toLowerCase(s) == [i \in 1..Len(s) |-> IF s[i] = "FCT" THEN "fct" ELSE s[i]]
      includes(s, pat) ==
        \E i \in 0..(Len(s) - Len(pat)) : SubSeq(s, i + 1, i + Len(pat)) = pat
      name == toLowerCase(file)
      normalizedBase == toLowerCase(baseName(task))
      baseNoUnderscore == SelectSeq(normalizedBase, LAMBDA c : c # "_")
      taskId == toLowerCase(task.id)
  IN (IF name = toLowerCase(task.sqlFile) THEN 100 ELSE 0)
     + (IF name = normalizedBase \o <<".sql">> THEN 90 ELSE 0)
     + (IF includes(name, normalizedBase) THEN 50 ELSE 0)
     + (IF includes(name, baseNoUnderscore) THEN 40 ELSE 0)
     + (IF includes(name, taskId) THEN 30 ELSE 0)
     + (IF taskId = <<"org", "_", "churn", "_", "rate">> /\ includes(name, <<"churn">>)
        THEN 20 ELSE 0)

\* files.map(f => ({ f, score })).sort((a, b) => b.score - a.score)[0]: the
\* sort is stable, so of the files with the highest score the first in
\* directory order comes out; 0 when there is no file
best(task, files) ==
  IF files = << >> THEN 0
  ELSE CHOOSE i \in 1..Len(files) :
         /\ \A j \in 1..Len(files) : scoreFile(task, files[j].name) <= scoreFile(task, files[i].name)
         /\ \A j \in 1..(i - 1) : scoreFile(task, files[j].name) < scoreFile(task, files[i].name)

\* what a call of validate comes to: a ValidationResult returned, or an
\* exception raised (raised is its code)
Result(v, a, e, r) == [valid |-> v, actual |-> a, error |-> e, raised |-> r]

\* validate of the typed-application sandbox. a.target is the state of
\* src/analytics/queries.ts, a.hasFunction whether the code exports a function
\* of one of the accepted names, a.exit and a.output what the validation
\* script did: each printed line is {"<key>":<body>} or other text
validateApp(a) ==
  IF a.target = "missing"
  THEN Result(FALSE, Undefined, "queries.ts not found", "none")
  ELSE IF a.target = "dir"
  THEN Result(FALSE, Undefined, NoError, "EISDIR")   \* readFileSync, outside try
  ELSE IF ~a.hasFunction
  THEN Result(FALSE, Undefined, "No function matching", "none")
  ELSE IF a.exit # "ok"
  THEN Result(FALSE, Undefined, "TypeScript error", "none")
  ELSE
    \* output.match(/\{"result":([\d.]+|null)\}/): the first line that fits
    LET fits(l) == /\ l.key = "result"
                   /\ \/ l.body = <<"null">>
                      \/ /\ l.body # << >>
                         /\ \A i \in 1..Len(l.body) : l.body[i] \in Digits \cup {"."}
        hits == {i \in 1..Len(a.output) : fits(a.output[i])}
        first == CHOOSE i \in hits : \A j \in hits : i <= j
    IN IF hits # {} /\ a.output[first].body # <<"null">>
       THEN Result(TRUE, parseFloat(a.output[first].body), NoError, "none")
       ELSE Result(FALSE, Undefined, "Function returned non-number", "none")

\* validate of the warehouse sandbox. a.marts and a.staging are the states of
\* models/marts and models/staging (kind missing, file or dir, and for a
\* directory its entries in readdir order), a.hasSelect whether the chosen
\* file contains SELECT, a.exit and a.output what run-sql.cjs did
validateDbt(a) ==
  LET task == SqlTask
      candidateDirs == <<a.marts, a.staging>>
      sql(d) == SelectSeq(d.files, LAMBDA f : f.name[Len(f.name)] = ".sql")
      names(d) == {sql(d)[i].name : i \in 1..Len(sql(d))}
      exact(d) == {k \in 1..Len(variations(task)) : variations(task)[k] \in names(d)}
      firstExact(d) == variations(task)[CHOOSE k \in exact(d) : \A j \in exact(d) : k <= j]
      kindOf(d, n) == (CHOOSE f \in {d.files[i] : i \in 1..Len(d.files)} : f.name = n).kind
      \* the relaxed pass over one directory: the entry picked, or none
      relaxed(d) == IF d.kind = "dir" /\ sql(d) # << >>
                       /\ scoreFile(task, sql(d)[best(task, sql(d))].name) > 0
                    THEN <<sql(d)[best(task, sql(d))].name>> ELSE << >>
      \* actualSqlPath as <<directory index, name>>, << >> when nothing is
      \* found, <<0>> when readdirSync raised on a path that is a file
      found ==
        IF a.marts.kind = "file" THEN <<0>>
        ELSE IF a.marts.kind = "dir" /\ exact(a.marts) # {} THEN <<1, firstExact(a.marts)>>
        ELSE IF a.staging.kind = "file" THEN <<0>>
        ELSE IF a.staging.kind = "dir" /\ exact(a.staging) # {} THEN <<2, firstExact(a.staging)>>
        ELSE IF relaxed(a.marts) # << >> THEN <<1, relaxed(a.marts)[1]>>
        ELSE IF relaxed(a.staging) # << >> THEN <<2, relaxed(a.staging)[1]>>
        ELSE << >>
      \* addViewsFromDir reads every other .sql entry of a directory
      viewsRaise(k) ==
        LET d == candidateDirs[k] IN
          \/ d.kind = "file"
          \/ \E i \in 1..Len(sql(d)) :
               /\ sql(d)[i].kind = "dir"
               /\ <<k, sql(d)[i].name>> # found
      isJsonNumber(b) ==
        LET u == IF b # << >> /\ Head(b) = "-" THEN Tail(b) ELSE b
            n == DigitRun(u)
            rest == SubSeq(u, n + 1, Len(u))
        IN /\ n >= 1
           /\ \/ rest = << >>
              \/ /\ Head(rest) = "." /\ Len(rest) >= 2
                 /\ DigitRun(Tail(rest)) = Len(rest) - 1
  IN IF found = <<0>> THEN Result(FALSE, Undefined, NoError, "ENOTDIR")
     ELSE IF found = << >> THEN Result(FALSE, Undefined, "No SQL file matching", "none")
     ELSE IF kindOf(candidateDirs[found[1]], found[2]) = "dir"
     THEN Result(FALSE, Undefined, NoError, "EISDIR")   \* readFileSync, outside try
     ELSE IF ~a.hasSelect THEN Result(FALSE, Undefined, "SQL does not contain SELECT", "none")
     ELSE IF viewsRaise(2) THEN
       Result(FALSE, Undefined, NoError, IF a.staging.kind = "file" THEN "ENOTDIR" ELSE "EISDIR")
     ELSE IF viewsRaise(1) THEN Result(FALSE, Undefined, NoError, "EISDIR")
     ELSE IF a.exit # "ok" THEN Result(FALSE, Undefined, "DuckDB error", "none")
     \* JSON.parse(output.trim()) raises inside the try unless the output is one
     \* JSON value
     ELSE IF Len(a.output) # 1 THEN Result(FALSE, Undefined, "DuckDB error", "none")
     ELSE LET l == a.output[1] IN
       IF l.key = "error" THEN Result(FALSE, Undefined, "SQL error", "none")
       ELSE IF l.key = "result" /\ isJsonNumber(l.body)
       THEN Result(TRUE, parseFloat(l.body), NoError, "none")
       ELSE IF l.key = "result" /\ l.body \in {<<"null">>, << >>}
       THEN Result(FALSE, Undefined, "SQL did not return a number", "none")
       ELSE Result(FALSE, Undefined, "DuckDB error", "none")

\* config.validate of the sandbox a.sandbox
validate(a) == IF a.sandbox = "app-typed" THEN validateApp(a) ELSE validateDbt(a)

\* the states validate can be called in
ValidateInputs ==
  LET Bodies == { <<"1", ".", "5">>, <<".">>, <<"-", "1">>, <<"null">>, << >> }
      Lines == { [key |-> "result", body |-> b] : b \in Bodies }
               \cup { [key |-> "error", body |-> << >>], [key |-> "text", body |-> << >>] }
      ScriptOutputs == UNION { [1..n -> Lines] : n \in 0..MaxLines }
      Names == { SqlTask.sqlFile,
                 <<"FCT", "_", "org", "_", "churn", "_", "rate", ".sql">>,
                 <<"churn", "_", "a", ".sql">>, <<"churn", "_", "b", ".sql">>,
                 <<"a", ".sql">>, <<"a", ".md">> }
      Entries == { [name |-> n, kind |-> "file"] : n \in Names }
                 \cup { [name |-> SqlTask.sqlFile, kind |-> "dir"] }
      Listings == { f \in UNION { [1..n -> Entries] : n \in 0..MaxFiles } :
                      \A i, j \in 1..Len(f) : i # j => f[i].name # f[j].name }
      Absent == { [kind |-> "missing", files |-> << >>], [kind |-> "file", files |-> << >>] }
      Marts == Absent \cup { [kind |-> "dir", files |-> f] : f \in Listings }
      Staging == Absent \cup { [kind |-> "dir", files |-> f] : f \in {<< >>, <<[name |-> <<"churn", "_", "a", ".sql">>, kind |-> "file"]>>} }
  IN { [sandbox |-> "app-typed", target |-> t, hasFunction |-> h, exit |-> e, output |-> o] :
         t \in {"missing", "file", "dir"}, h \in BOOLEAN, e \in {"ok", "fail"},
         o \in ScriptOutputs }
     \cup
     { [sandbox |-> "warehouse-dbt", marts |-> m, staging |-> s, hasSelect |-> h,
        exit |-> e, output |-> o] :
         m \in Marts, s \in Staging, h \in BOOLEAN, e \in {"ok", "fail"},
         o \in { q \in ScriptOutputs : Len(q) <= 1 } }

ValidateInit == Idle /\ op = "none" /\ arg \in ValidateInputs /\ ret = << >>

RunValidate ==
  /\ pc = "idle" /\ op = "none"
  /\ op' = "validate"
  /\ ret' = validate(arg)
  /\ UNCHANGED <<run, arg>>

ValidateNext == RunValidate

ValidateSpec == ValidateInit /\ [][ValidateNext]_vars

\* ---------------------------------------------------------------- rubric
\* paths are sequences of segments ("./k1" is . k1); scores that are
\* fractions are kept exact as [num, den]
\* normalizePath: trim, then drop one leading "./"
normalizePath(value) == IF value # << >> /\ Head(value) = "." THEN Tail(value) ELSE value

\* path.join(sandboxDir, p): the file a path names, "." and ".." resolved
RECURSIVE pathJoin(_)
pathJoin(p) ==
  IF p = << >> THEN << >>
  ELSE LET front == pathJoin(SubSeq(p, 1, Len(p) - 1))
           last == p[Len(p)]
       IN IF last = "." THEN front
          ELSE IF last = ".." /\ front # << >> THEN SubSeq(front, 1, Len(front) - 1)
          ELSE Append(front, last)

\* error texts are sequences of phrases, << >> for undefined or the empty
\* text; the regular expression of isSchemaError finds one of its keywords
\* in the text or not
isSchemaError(e) ==
  \E i \in 1..Len(e) :
    e[i] \in {"column", "table", "relation", "no such", "unknown",
              "does not exist", "invalid identifier"}

\* readFiles holds the path of every read_file call, in call order
computeToolUsageScore(readFiles, contextFiles) ==
  LET keyFiles == [i \in 1..Len(contextFiles) |-> normalizePath(contextFiles[i])]
      reads == {normalizePath(readFiles[i]) : i \in 1..Len(readFiles)}
      hits == Cardinality({i \in 1..Len(keyFiles) : keyFiles[i] \in reads})
  IN IF readFiles = << >> \/ keyFiles = << >> THEN [num |-> 0, den |-> 1]
     ELSE [num |-> hits, den |-> Len(keyFiles)]

\* variant: runtime correctness counts twice
computeRubric_Weighted(contextFiles, pass, validationOk, e, readFiles) ==
  LET runtime == IF validationOk THEN 1 ELSE 0
      output == IF pass THEN 1 ELSE 0
      schema == IF validationOk /\ ~isSchemaError(e) THEN 1 ELSE 0
      toolUsageScore == computeToolUsageScore(readFiles, contextFiles)
  IN [runtime |-> runtime, output |-> output, schema |-> schema,
      toolUsage |-> toolUsageScore,
      total |-> [num |-> (2 * runtime + output + schema) * toolUsageScore.den
                         + toolUsageScore.num,
                 den |-> 5 * toolUsageScore.den]]

computeRubric(contextFiles, pass, validationOk, e, readFiles) ==
  LET runtime == IF validationOk THEN 1 ELSE 0
      output == IF pass THEN 1 ELSE 0
      schema == IF validationOk /\ ~isSchemaError(e) THEN 1 ELSE 0
      toolUsageScore == computeToolUsageScore(readFiles, contextFiles)
  IN [runtime |-> runtime, output |-> output, schema |-> schema,
      toolUsage |-> toolUsageScore,
      total |-> [num |-> (runtime + output + schema) * toolUsageScore.den
                         + toolUsageScore.num,
                 den |-> 4 * toolUsageScore.den]]

\* variant: a run passes only with a full rubric total
scoreRun_RubricGate(a, readFiles) ==
  LET p == a.success /\ a.validation.valid
           /\ archPass(a.validation.actual, a.expected, a.tolerance)
      r == computeRubric(a.contextFiles, p, a.success /\ a.validation.valid,
                         << >>, readFiles)
  IN [pass |-> p /\ r.total.num = r.total.den, rubric |-> r]

\* runBenchmark, from the return of runAgent to results.push: pass and rubric
\* of a run whose agent result, validation, expected value, tolerance and
\* context files are a, with the given read_file trace
scoreRun(a, readFiles) ==
  IF ~a.success
  THEN [pass |-> FALSE,
        rubric |-> computeRubric(a.contextFiles, FALSE, FALSE, a.error, readFiles)]
  ELSE IF ~a.validation.valid
  THEN [pass |-> FALSE,
        rubric |-> computeRubric(a.contextFiles, FALSE, FALSE, a.validation.error,
                                 readFiles)]
  ELSE LET pass == archPass(a.validation.actual, a.expected, a.tolerance)
       IN [pass |-> pass,
           rubric |-> computeRubric(a.contextFiles, pass, TRUE, << >>, readFiles)]

\* the runs scored: every agent outcome and validation with every trace of
\* read_file paths; values and tolerances are in units of 1/Scale
ScoreInputs ==
  LET Errors == { <<"Max turns exceeded">>, <<"SQL error:", "column", "x", "does not exist">>,
                  <<"queries.ts not found">> }
      Values == { Num(v) : v \in (0 - MaxTol - 1)..(MaxTol + 3) } \cup { NaN, Undefined }
      NoValidation == [valid |-> FALSE, actual |-> Undefined, error |-> << >>]
      Outcomes ==
        { [success |-> FALSE, error |-> e, validation |-> NoValidation] : e \in Errors }
        \cup { [success |-> TRUE, error |-> << >>,
                validation |-> [valid |-> FALSE, actual |-> Undefined, error |-> e]] :
               e \in Errors }
        \cup { [success |-> TRUE, error |-> << >>,
                validation |-> [valid |-> TRUE, actual |-> v, error |-> << >>]] :
               v \in Values }
      ReadPaths == { <<"k1">>, <<".", "k1">>, <<"d", "..", "k1">>, <<"k2">>, <<"other">> }
      Traces == UNION { [1..n -> ReadPaths] : n \in 0..MaxReads }
      ContextFiles == { << >>, << <<"k1">>, <<"k2">> >>, << <<".", "k1">> >> }
  IN { [success |-> o.success, error |-> o.error, validation |-> o.validation,
        expected |-> e, tolerance |-> t, readFiles |-> r, contextFiles |-> c] :
       o \in Outcomes, e \in {0, 2}, t \in 0..MaxTol, r \in Traces, c \in ContextFiles }

\* ret is the score of the run and the score of the same run with an empty
\* read_file trace
ScoreInit == Idle /\ op = "none" /\ arg \in ScoreInputs /\ ret = << >>

RunScore ==
  /\ pc = "idle" /\ op = "none"
  /\ op' = "score"
  /\ ret' = <<scoreRun(arg, arg.readFiles), scoreRun(arg, << >>)>>
  /\ UNCHANGED <<run, arg>>

ScoreNext == RunScore

ScoreSpec == ScoreInit /\ [][ScoreNext]_vars

\* ---------------------------------------------------------------- gateway adapters
\* One call of a gateway adapter, a request at a time.  arg is the call
\* (adapter, whether the API key is set, --retries), ret how far the call is:
\* attempt is the adapter's counter, requests the fetches made, waits the
\* sleeps in milliseconds, last what the last fetch gave.
MaxRetries == 2
Adapters == {"mistral", "openrouter", "retry"}
NetworkErrors == {"fetch failed", "ECONNRESET"}
Responses == {"ok", "429", "500", "aborted"} \cup NetworkErrors

NewCall ==
  [attempt |-> 0, requests |-> 0, waits |-> << >>, status |-> "calling",
   last |-> "none", err |-> "none"]

Raised(s, e) == [s EXCEPT !.status = "raised", !.err = e]

\* variant: a rate-limited request is sent again however often it happened
callMistralLLM_Forever(key, s, resp) ==
  IF ~key THEN Raised(s, "API key not set")
  ELSE LET sent == [s EXCEPT !.requests = @ + 1, !.last = resp,
                             !.waits = IF s.attempt > 0
                                       THEN Append(@, (2 ^ s.attempt) * 1000) ELSE @]
       IN CASE resp = "ok" -> [sent EXCEPT !.status = "returned"]
            [] resp = "429" -> [sent EXCEPT !.attempt = @ + 1, !.err = "Rate limited"]
            [] resp = "500" -> Raised(sent, "API error")
            [] OTHER -> Raised(sent, resp)

\* one pass through for (attempt = 0; attempt < 5; attempt++): the sleep of
\* Math.pow(2, attempt) * 1000 ms when attempt > 0, the fetch, and what its
\* response leads to; after the fifth 429 the loop ends and lastError is thrown
callMistralLLM(key, s, resp) ==
  IF ~key THEN Raised(s, "API key not set")
  ELSE LET sent == [s EXCEPT !.requests = @ + 1, !.last = resp,
                             !.waits = IF s.attempt > 0
                                       THEN Append(@, (2 ^ s.attempt) * 1000) ELSE @]
       IN CASE resp = "ok" -> [sent EXCEPT !.status = "returned"]
            [] resp = "429" ->
                 IF s.attempt + 1 < 5
                 THEN [sent EXCEPT !.attempt = @ + 1, !.err = "Rate limited"]
                 ELSE Raised([sent EXCEPT !.attempt = @ + 1], "Rate limited")
            [] resp = "500" -> Raised(sent, "API error")
            [] OTHER -> Raised(sent, resp)

\* the same loop around the OpenRouter endpoint
callOpenRouterLLM(key, s, resp) == callMistralLLM(key, s, resp)

\* one pass through while (true) of callModelWithRetry: callModel throws for a
\* missing key, a failed fetch or a response that is not ok; the catch block
\* sleeps 500 * attempt ms and goes round again when the message names a
\* network error and attempt <= retries, and rethrows otherwise
callModelWithRetry(key, retries, s, resp) ==
  IF ~key THEN Raised([s EXCEPT !.attempt = @ + 1], "API key is not set")
  ELSE LET sent == [s EXCEPT !.requests = @ + 1, !.last = resp]
           failed == [sent EXCEPT !.attempt = @ + 1]
       IN IF resp = "ok" THEN [sent EXCEPT !.status = "returned"]
          ELSE IF resp \notin NetworkErrors
          THEN Raised(failed, IF resp \in {"429", "500"} THEN "API error" ELSE resp)
          ELSE IF failed.attempt > retries THEN Raised(failed, resp)
          ELSE [failed EXCEPT !.err = resp, !.waits = Append(@, 500 * failed.attempt)]

GatewayInit ==
  /\ Idle /\ op = "none" /\ ret = NewCall
  /\ arg \in [adapter : {"mistral", "openrouter"}, apiKey : BOOLEAN, retries : {0}]
            \cup [adapter : {"retry"}, apiKey : BOOLEAN, retries : 0..MaxRetries]

\* the adapter sends one request (or finds the key missing) and gets a response
Request ==
  /\ pc = "idle" /\ arg \in [adapter : Adapters, apiKey : BOOLEAN, retries : 0..MaxRetries]
  /\ ret.status = "calling"
  /\ \E resp \in Responses :
       ret' = CASE arg.adapter = "mistral" -> callMistralLLM(arg.apiKey, ret, resp)
                [] arg.adapter = "openrouter" -> callOpenRouterLLM(arg.apiKey, ret, resp)
                [] OTHER -> callModelWithRetry(arg.apiKey, arg.retries, ret, resp)
  /\ op' = "request"
  /\ UNCHANGED <<run, arg>>

GatewayNext == Request

GatewaySpec == GatewayInit /\ [][GatewayNext]_vars

\* ---------------------------------------------------------------- conversation window
\* What each loop hands to callLLM as the conversation grows.  arg is the
\* harness ("arch": architecture benchmark, "modular": runAgentLoop, "agent":
\* runAgent of the agent benchmark), ret.messages the conversation, ret.sent
\* what the last call was given.
MaxWindowTurns == 7
WindowHarnesses == {"arch", "modular", "agent"}
Omitted == Msg("user", "earlier turns omitted")

\* messages.slice(-n)
LastN(msgs, n) ==
  SubSeq(msgs, IF Len(msgs) > n THEN Len(msgs) - n + 1 ELSE 1, Len(msgs))

\* if (messages.length <= maxMessages) return messages;
\* return [first, placeholder, ...messages.slice(-(maxMessages - 1))]
trimMessages(msgs, maxMessages) ==
  IF Len(msgs) <= maxMessages THEN msgs
  ELSE <<msgs[1], Omitted>> \o LastN(msgs, maxMessages - 1)

\* the argument of callLLM at each call site: the whole list in the
\* architecture benchmark, trimMessages(messages, 8) in the modular one, and
\* the inline rule of the agent benchmark (more than 12: first, placeholder,
\* last 10)
contextMessages(h, msgs) ==
  CASE h = "modular" -> trimMessages(msgs, 8)
    [] h = "agent" -> IF Len(msgs) > 12
                      THEN <<msgs[1], Omitted>> \o LastN(msgs, 10)
                      ELSE msgs
    [] OTHER -> msgs

WindowInit ==
  /\ Idle /\ op = "none" /\ arg \in WindowHarnesses
  /\ ret = [messages |-> <<TaskPrompt>>, sent |-> << >>, turns |-> 0]

\* one turn that goes on: the window is sent, the response is appended, and
\* then either the tool's observation or the corrective turn
SendTurn ==
  /\ pc = "idle" /\ arg \in WindowHarnesses
  /\ ret.turns < MaxWindowTurns
  /\ \E reply \in {Observation("tool result"), Corrective} :
       ret' = [messages |-> ret.messages \o <<Msg("assistant", "response"), reply>>,
               sent |-> contextMessages(arg, ret.messages),
               turns |-> ret.turns + 1]
  /\ op' = "callLLM"
  /\ UNCHANGED <<run, arg>>

WindowNext == SendTurn

WindowSpec == WindowInit /\ [][WindowNext]_vars

\* ---------------------------------------------------------------- properties

\* C1: a run configured with maxTurns = N issues at most N model calls before
\* it ends, whatever the model answers and whatever the tools return
C1_AtMostMaxTurnsCalls == llmCalls <= maxTurns

\* a run that used its whole budget of two calls and has ended
C1_Witness ==
  /\ pc = "start" /\ idx > 1
  /\ maxTurns >= 2 /\ llmCalls = maxTurns

\* C2: a run ends with the max-turns failure exactly when the loop used its
\* whole turn budget without the terminal action being issued; never for a run
\* that ended on the terminal action or on an execution or gateway error
C2_MaxTurnsExactlyOnExhaustion ==
  [][(pc \in {"loop", "handle"} /\ pc' \notin {"loop", "handle"}) =>
       ((error' \in {MaxTurnsArch, MaxTurnsBash}) <=> (pc = "loop" /\ turn > maxTurns))]_vars

\* C3: once the orchestrator has stopped, every combination it started has
\* exactly one result in the result set
C3_OneResultPerStartedCombination ==
  pc \in {"finished", "aborted"} =>
    LET started == IF pc = "aborted" /\ abortCause # "setup" THEN idx ELSE idx - 1
    IN \A c \in 1..started :
         Cardinality({ i \in DOMAIN results : results[i].combo = c }) = 1

\* C4: an infrastructure error (workspace setup, missing credentials) does not
\* lose the results collected before it: main holds them when the script stops
C4_InfrastructureErrorKeepsResults ==
  (pc = "aborted" /\ abortCause \in {"setup", "credentials"}) => mainResults = results

\* C5 as stated: every architecture-benchmark run that yields a result has had
\* the validator invoked exactly once
C5_ValidatedOncePerResult ==
  [][(harness = "arch" /\ Len(results') = Len(results) + 1) => validations' = 1]_vars

\* C5 amended: a run of the architecture benchmark that yields a result has had
\* the validator invoked exactly once when its agent loop ended on the terminal
\* action and not at all when it ended on 'Max turns exceeded'; never twice
C5_ValidatedOncePerDoneRun ==
  /\ [](validations <= 1)
  /\ [][(harness = "arch" /\ Len(results') = Len(results) + 1) =>
          validations' = (IF success THEN 1 ELSE 0)]_vars

\* the first run ended on max turns and was recorded unvalidated, the second
\* ended on done and was validated once
C5_Witness ==
  /\ harness = "arch" /\ pc = "start"
  /\ Len(results) = 2
  /\ results[1].error = MaxTurnsArch
  /\ success /\ validations = 1

\* C6: a result passes iff its actual is a number within the task's tolerance
\* of the expected value, boundary included; with expected 1000 and tolerance
\* 1, actual 999.5 passes and actual 998 fails
C6_PassIffWithinTolerance ==
  \A i \in DOMAIN results :
    LET r == results[i] IN
      /\ r.pass <=> /\ r.actual.kind = "num"
                    /\ r.actual.v - r.expected <= r.tolerance
                    /\ r.expected - r.actual.v <= r.tolerance
      /\ (r.expected = 1000 * Scale /\ r.tolerance = Scale) =>
           /\ r.actual = Num(999500) => r.pass
           /\ r.actual = Num(998000) => ~r.pass

\* expected 1000, actual 999.5: recorded as a pass
C6_Witness ==
  \E i \in DOMAIN results :
    /\ results[i].expected = 1000 * Scale
    /\ results[i].actual = Num(999500)
    /\ results[i].pass

\* C7: executing any parsed tool call in any workspace state returns observation
\* text and never raises out of the executor
C7_ExecutorNeverRaises ==
  (pc = "handle" /\ ~parseToolCall(response).isNull) =>
    \A exit \in ExitsOf(harness) :
      ~Execute(harness, idx, parseToolCall(response), ws, exit).threw

\* C8: a turn whose output has no tool tag adds one assistant entry and one
\* corrective user entry (two entries per turn), consumes one turn, executes no
\* tool and leaves the workspace alone
C8_NoToolTurn ==
  /\ [](pc = "loop" => Len(messages) = 2 * turn - 1)
  /\ [][(pc = "handle" /\ parseToolCall(response).isNull) =>
          /\ Len(messages') = 2 * turn + 1
          /\ SubSeq(messages', 1, Len(messages)) = messages
          /\ messages'[Len(messages') - 1].role = "assistant"
          /\ messages'[Len(messages')] = Corrective
          /\ turn' = turn + 1
          /\ pc' = "loop"
          /\ UNCHANGED <<ws, toolRuns, llmCalls, results>>]_vars

\* the second turn begins after a first turn without a tool tag
C8_Witness ==
  /\ pc = "loop" /\ turn = 2
  /\ Len(messages) = 3 /\ Last(messages) = Corrective
  /\ toolRuns = 0 /\ llmCalls = 1

C10_UnknownToolContinues ==
  /\ [][(/\ pc = "handle"
         /\ ~parseToolCall(response).isNull
         /\ parseToolCall(response).tool \notin
              (IF harness = "arch" THEN ArchVocabulary
               ELSE IF AgentTypeOf(idx) = "bash" THEN BashVocabulary
               ELSE SqlVocabulary)) =>
          /\ \A exit \in ExitsOf(harness) :
               LET r == Execute(harness, idx, parseToolCall(response), ws, exit)
               IN ~r.threw /\ r.obs = "Unknown tool" /\ r.ws = ws
          /\ observation' = "Unknown tool"
          /\ messages' = Append(messages, Msg("user", "tool result"))
          /\ turn' = turn + 1
          /\ pc' = "loop"
          /\ UNCHANGED <<ws, results, idx>>]_vars
  /\ [][(pc = "loop" /\ turn <= maxTurns) => llmCalls' = llmCalls + 1]_vars

\* the model was called again right after an unknown tool's observation
C10_Witness ==
  /\ pc = "handle" /\ turn = 2 /\ llmCalls = 2
  /\ observation = "Unknown tool"

\* C11: in every turn at most one tool is executed; when the output has
\* several <tool> tags the tool executed is the one the first recognized tag
\* names, and the later tool tags cause no execution
C11_FirstToolTagWins ==
  /\ [](toolRuns <= llmCalls)
  /\ [][pc = "handle" =>
          LET recognized == { i \in 1..Len(response) :
                                response[i].tag = "tool" /\ response[i].body \in WordBodies }
              first == CHOOSE i \in recognized : \A j \in recognized : i <= j
              terminal == IF harness = "arch" THEN "done" ELSE "answer"
          IN IF recognized = {} THEN toolRuns' = toolRuns /\ ws' = ws
             ELSE IF response[first].body = terminal
                  THEN toolRuns' = toolRuns /\ ws' = ws /\ pc' \in {"returned", "start"}
             ELSE /\ toolRuns' = toolRuns + 1
                  /\ \E exit \in ExitsOf(harness) :
                       LET call == [parseToolCall(response) EXCEPT !.tool = response[first].body]
                           r == Execute(harness, idx, call, ws, exit)
                       IN /\ ws' = r.ws
                          /\ (~r.threw /\ ~r.hung)
                             => (pc' = "loop" /\ observation' = r.obs)]_vars

\* the output "read_file data ... done" (the only one that reads the directory
\* data) was handled: read_file ran once and the run goes on
C11_Witness ==
  /\ harness = "arch" /\ pc = "loop"
  /\ observation = "Error: is a directory"
  /\ toolRuns = 1 /\ turn = 2

\* C12: for any input text (empty, with malformed or unclosed tags, with
\* several <tool> tags) the parser returns null or a well-formed tool call: a
\* non-empty tool name of word characters and a map of string parameters; it
\* returns null exactly when the text has no <tool>word</tool> tag
C12_ParserTotal ==
  op = "parseToolCall" =>
    LET tagged == \E i, j \in 1..Len(arg) :
                    /\ i + 1 < j
                    /\ arg[i] = "<tool>" /\ arg[j] = "</tool>"
                    /\ \A k \in (i + 1)..(j - 1) : arg[k] \in WordChars
        WellFormed(p, close) ==
          \/ p = NotSet
          \/ /\ DOMAIN p = {"set", "body"} /\ p.set
             /\ p.body \in Texts
             /\ \A k \in 1..Len(p.body) : p.body[k] # close
    IN /\ ret.isNull <=> ~tagged
       /\ ret.isNull => ret = NoToolCall
       /\ ~ret.isNull =>
            /\ DOMAIN ret = {"isNull", "tool", "path", "content"}
            /\ ret.tool # << >>
            /\ \A k \in 1..Len(ret.tool) : ret.tool[k] \in WordChars
            /\ WellFormed(ret.path, "</path>")
            /\ WellFormed(ret.content, "</content>")
            /\ ret.path.set => (ret.path.body = << >> \/
                                  (Head(ret.path.body) # " " /\ Last(ret.path.body) # " "))

\* an unclosed <tool> tag followed by a complete one: the complete one is parsed
C12_Witness ==
  /\ op = "parseToolCall"
  /\ arg = <<"<tool>", "<tool>", "a", "</tool>">>
  /\ ret = [isNull |-> FALSE, tool |-> <<"a">>, path |-> NotSet, content |-> NotSet]

\* C13: no sequence of tool calls creates, modifies or deletes a file outside
\* the run's own workspace directory, whatever the path or command parameter
C13_NothingOutsideWorkspace ==
  \A p \in Paths : Outside(p) => ws[p] = FreshWorkspace[p]

\* C14: any two runs get distinct workspace directory names, so setting up one
\* run never removes or overwrites the workspace of another
C14_DistinctWorkspaceNames ==
  /\ \A i, j \in DOMAIN ret.dirOf : i # j => ret.dirOf[i] # ret.dirOf[j]
  /\ \A i \in DOMAIN ret.dirOf : ret.owner[ret.dirOf[i]] = i

\* C15: every agent run starts on a workspace that holds exactly the fixture
\* copy and the dataset: nothing an earlier run wrote, changed or deleted is
\* there when the first model call of a run is about to be made
C15_RunStartsOnFreshWorkspace ==
  (pc = "loop" /\ turn = 1) =>
    \A p \in Paths : ~Outside(p) => ws[p] = FreshWorkspace[p]

\* C16: the expected value of a combination is computed before the first model
\* call of its run, nothing the agent does during the run changes it, and the
\* result is scored against that value
C16_ExpectedFixedBeforeAgent ==
  /\ [](pc \in {"loop", "handle", "returned"} => expected = TaskOf(idx).expected)
  /\ [][(pc \in {"loop", "handle", "returned"}) => expected' = expected]_vars
  /\ [][Len(results') = Len(results) + 1 =>
          LET r == Last(results') IN
            /\ r.expected = TaskTable[((r.combo - 1) % Len(TaskTable)) + 1].expected
            /\ r.pass => /\ r.actual.v - r.expected <= r.tolerance
                         /\ r.expected - r.actual.v <= r.tolerance]_vars

\* the agent overwrote a file during the first run, which was then validated
\* and scored against the expected value 1000
C16_Witness ==
  /\ harness = "arch" /\ pc = "start" /\ idx = 2
  /\ ws["q.ts"] = "agent"
  /\ validations = 1
  /\ results[1].expected = 1000 * Scale

\* C17: for every task and every dataset, under every drift mode and also with
\* empty tables, the expected values computed twice from the same dataset are
\* identical
C17_ExpectedValueDeterministic ==
  (op = "buildTasks" /\ Len(ret) = 2) => ret[1] = ret[2]

\* an empty api_usage table (the anchor is the current time) with users,
\* organizations and a paid invoice: computed twice, same values
C17_Witness ==
  /\ op = "buildTasks" /\ Len(ret) = 2
  /\ arg.data.api_usage = << >>
  /\ arg.data.users = <<UserRow1, UserRow2>>
  /\ arg.drift = "stripe-lag"
  /\ ret[2].org_churn_rate = 5000
  /\ ret[2].avg_org_ltv = 251

\* C18: every result of validate with valid = true carries a finite number as
\* its actual: NaN, Infinity or a non-number never comes with valid = true,
\* whatever the artifact returned or printed
C18_ValidActualIsFinite ==
  (op = "validate" /\ ret.valid) => ret.actual.kind = "num"

\* C19: in every state the workspace can be left in validate raises nothing,
\* a result with valid = false names its error, and the result is valid =
\* false when the target is missing or a directory, when models/marts is a
\* file, and when the artifact fails to run
C19_ValidateNeverRaises ==
  op = "validate" =>
    /\ ret.raised = "none"
    /\ ~ret.valid => ret.error # NoError
    /\ (IF arg.sandbox = "app-typed"
        THEN arg.target # "file" \/ arg.exit # "ok"
        ELSE arg.marts.kind = "file" \/ arg.exit # "ok") => ~ret.valid

\* C20: when no exact name is present and models/marts is the only directory,
\* a top score that is zero or shared by two or more of its .sql files ends
\* in "No SQL file matching": no file is picked
C20_ScoredMatchNeedsUniqueTop ==
  (op = "validate" /\ arg.sandbox = "warehouse-dbt") =>
    LET files == SelectSeq(arg.marts.files, LAMBDA f : f.name[Len(f.name)] = ".sql")
        score(i) == scoreFile(SqlTask, files[i].name)
        tops == {i \in 1..Len(files) : \A j \in 1..Len(files) : score(j) <= score(i)}
        exact == \E i \in 1..Len(files), k \in 1..Len(variations(SqlTask)) :
                   files[i].name = variations(SqlTask)[k]
    IN (/\ arg.marts.kind = "dir" /\ arg.staging.kind = "missing"
        /\ files # << >> /\ ~exact
        /\ \/ Cardinality(tops) > 1
           \/ \A i \in tops : score(i) <= 0)
       => ret.error = "No SQL file matching"

\* C21: whatever tool calls were made, the dataset a validation script loads
\* is the dataset injected when the workspace was set up
C21_ValidatorDatasetIsInjected == dataLoads(ws) = dataLoads(FreshWorkspace)

\* C22: a bash call whose command does not begin with ls, cat, grep, jq, awk,
\* sort, uniq, head, tail, wc, cut, tr, echo, expr or bc is answered with the
\* not-allowed error and starts no process
C22_BashAllowList ==
  (/\ op = "bash" /\ arg.h = "bash" /\ AgentTypeOf(arg.c) = "bash"
   /\ Truthy(ret.call.command, << >>)
   /\ ret.call.command.body[1] \notin
        {"ls", "cat", "grep", "jq", "awk", "sort", "uniq", "head", "tail", "wc",
         "cut", "tr", "echo", "expr", "bc"})
  => ret.obs = "Error: Command is not allowed"

\* C23: a query, schema, sample or tables call of the sql agent leaves the
\* data store as it was, and a query whose statement does not begin with
\* SELECT or WITH is answered with the only-SELECT-or-WITH error, not run
C23_SqlToolsLeaveStore ==
  [][(/\ arg.h = "bash" /\ AgentTypeOf(arg.c) = "sql"
      /\ op' \in {"query", "schema", "sample", "tables"})
     => /\ ws'["data.sqlite"] = ws["data.sqlite"]
        /\ (/\ op' = "query" /\ Truthy(ret'.call.sql, << >>)
            /\ ret'.call.sql.body[1] \notin {"SELECT", "WITH"})
           => ret'.obs = "Error: Only SELECT or WITH statements are allowed"]_vars

\* a DELETE behind a WITH clause passed the check, was refused by the
\* read-only connection and left the store as it was
C23_Witness ==
  /\ op = "query" /\ AgentTypeOf(arg.c) = "sql"
  /\ ret.call.sql = [set |-> TRUE, body |-> <<"WITH", "DELETE">>]
  /\ ret.obs = "Error: message"
  /\ ws["data.sqlite"] = "orig"

\* C24: in every scored run the four rubric components lie between 0 and 1
\* and the total is their sum divided by four
C24_RubricComponentsAndMean ==
  op = "score" =>
    LET r == ret[1].rubric IN
      /\ r.runtime \in 0..1 /\ r.output \in 0..1 /\ r.schema \in 0..1
      /\ r.toolUsage.den > 0 /\ r.toolUsage.num \in 0..r.toolUsage.den
      /\ r.total.den > 0
      /\ 4 * r.total.num * r.toolUsage.den
           = r.total.den * ((r.runtime + r.output + r.schema) * r.toolUsage.den
                            + r.toolUsage.num)

\* a validated failing run that read one of two context files: total 5/8
C24_Witness ==
  /\ op = "score"
  /\ ret[1].rubric.runtime = 1 /\ ret[1].rubric.output = 0 /\ ret[1].rubric.schema = 1
  /\ ret[1].rubric.toolUsage = [num |-> 1, den |-> 2]
  /\ ret[1].rubric.total = [num |-> 5, den |-> 8]

\* C25: the run scored with its read_file trace and the same run scored with
\* an empty trace get the same pass, which is that of the validation, the
\* expected value and the tolerance alone
C25_PassIgnoresRubric ==
  op = "score" =>
    /\ ret[1].pass = ret[2].pass
    /\ ret[1].pass = (/\ arg.success /\ arg.validation.valid
                      /\ archPass(arg.validation.actual, arg.expected, arg.tolerance))

\* a passing run whose rubric differs from that of the run without reads
C25_Witness ==
  /\ op = "score" /\ ret[1].pass /\ ret[2].pass
  /\ ret[1].rubric.total # ret[2].rubric.total

\* C26: the schema component is 0 exactly when the error text of the run
\* matches a schema-failure keyword, and 1 otherwise
C26_SchemaComponent ==
  op = "score" =>
    LET e == IF arg.success THEN arg.validation.error ELSE arg.error
    IN ret[1].rubric.schema = (IF isSchemaError(e) THEN 0 ELSE 1)

\* C27: the tool-usage component is the number of declared context files the
\* read_file calls of the run have read, each file once, over the number of
\* declared context files, and 0 when none is declared or none was read
C27_ToolUsageIsFractionRead ==
  op = "score" =>
    LET keys == {pathJoin(arg.contextFiles[i]) : i \in 1..Len(arg.contextFiles)}
        read == {pathJoin(arg.readFiles[i]) : i \in 1..Len(arg.readFiles)}
        t == ret[1].rubric.toolUsage
    IN IF keys = {} THEN t.num = 0
       ELSE t.num * Cardinality(keys) = Cardinality(keys \cap read) * t.den

\* C28: a run that passes at its tolerance passes at every wider tolerance
C28_PassMonotoneInTolerance ==
  op = "score" =>
    \A t \in arg.tolerance..MaxTol :
      ret[1].pass => scoreRun([arg EXCEPT !.tolerance = t], arg.readFiles).pass

\* a pass on the boundary of a tolerance that can still be widened
C28_Witness ==
  /\ op = "score" /\ ret[1].pass
  /\ arg.tolerance = 1 /\ arg.tolerance < MaxTol
  /\ arg.validation.actual = Num(arg.expected + 1)

\* C30 as stated: with expected value 0, a run whose validator returned a
\* number other than 0 is recorded as a fail
C30_NonzeroFailsAtZero ==
  (/\ op = "score" /\ arg.expected = 0 /\ arg.success /\ arg.validation.valid
   /\ arg.validation.actual.kind = "num" /\ arg.validation.actual.v # 0)
  => ~ret[1].pass

\* C30 amended: with expected value 0, a run whose validator returned a number
\* farther from 0 than the tolerance, or NaN, is recorded as a fail
C30_BeyondToleranceFailsAtZero ==
  (/\ op = "score" /\ arg.expected = 0 /\ arg.success /\ arg.validation.valid
   /\ \/ arg.validation.actual.kind = "nan"
      \/ /\ arg.validation.actual.kind = "num"
         /\ Abs(arg.validation.actual.v) > arg.tolerance)
  => ~ret[1].pass

\* expected 0, the validator returned 0.003 at tolerance 0.001: a fail
C30_Witness ==
  /\ op = "score" /\ arg.expected = 0 /\ arg.tolerance = 1
  /\ arg.success /\ arg.validation.valid /\ arg.validation.actual = Num(3)
  /\ ~ret[1].pass

\* C29: with no organization that has a user the expected organization churn
\* rate is 0, and with no active subscription the expected churn rate of the
\* single-table benchmark is 0: never NaN or Infinity
C29_EmptyDenominatorGivesZero ==
  /\ op = "buildTasks" =>
       \A i \in 1..Len(ret) :
         (\A j \in DOMAIN arg.data.organizations :
            \A k \in DOMAIN arg.data.users :
              arg.data.users[k].organization_id # arg.data.organizations[j])
         => ret[i].org_churn_rate = 0
  /\ (/\ op = "churn_rate"
      /\ \A i \in DOMAIN arg.data.subscriptions :
           arg.data.subscriptions[i].status # "active")
     => ret[1] = Num(0)

\* C31: in every harness variant's executor, read_file on a path that names a
\* directory returns an error text as the observation and raises no exception
C31_ReadDirectoryReturnsError ==
  [][(/\ op' = "read_file" /\ ret'.call.path.set
      /\ IsDirectory(ws, ret'.call.path.body))
     => ret'.obs \notin {"exception", "file content"}]_vars

\* C39: a bash call that is let through starts no program outside the
\* allow-list, neither after a pipe, ";", "&&" or "||" nor through an
\* allow-listed program's own exec facility
C39_OnlyAllowListedPrograms ==
  (/\ op = "bash" /\ AgentTypeOf(arg.c) = "bash"
   /\ ret.obs \in {"output", "Error (exit)"})
  => ProgramsStarted(ret.call.command.body) \subseteq BASH_ALLOWED_COMMANDS

\* C37: the turns value of every recorded result is the number of model calls
\* of its run and lies between 0 and maxTurns; within a run the turn counter
\* never decreases and goes up by exactly one from one model call to the next
C37_TurnsCountModelCalls ==
  /\ [][Len(results') = Len(results) + 1 =>
         LET r == results'[Len(results')]
         IN r.turns = llmCalls' /\ 0 <= r.turns /\ r.turns <= maxTurns]_vars
  /\ [][(pc \in {"loop", "handle"} /\ pc' \in {"loop", "handle"})
         => turn' \in {turn, turn + 1}]_vars
  /\ [][llmCalls' = llmCalls + 1 => (turn' = turn /\ turn = llmCalls')]_vars

\* a run of two calls was recorded with turns = 2, after a run recorded with
\* fewer turns than its budget
C37_Witness ==
  /\ Len(results) = 2 /\ maxTurns = 2
  /\ results[1].turns = 1 /\ results[2].turns = 2

\* C36: in every harness the conversation sent on a turn is the first turn
\* followed by the last turns of the conversation, at most K of them for one
\* fixed K, and every call site applies the same rule to the same conversation
C36_UniformBoundedWindow ==
  op = "callLLM" =>
    LET full == SubSeq(ret.messages, 1, Len(ret.messages) - 2)
    IN /\ \A h \in WindowHarnesses : contextMessages(h, full) = ret.sent
       /\ \E k \in 0..10 : ret.sent = <<full[1]>> \o LastN(Tail(full), k)

\* C40: the conversation sent starts with the task prompt as a user turn,
\* alternates user and assistant turns and ends with a user turn, also after
\* it has been cut down
C40_SentAlternates ==
  op = "callLLM" =>
    /\ ret.sent[1] = TaskPrompt
    /\ \A i \in 1..(Len(ret.sent) - 1) : ret.sent[i].role # ret.sent[i + 1].role
    /\ ret.sent[Len(ret.sent)].role = "user"

\* C35: a gateway adapter sends a request again only after an HTTP 429
\* response; any other failure (other status, network error, missing API key)
\* is raised to the caller at once with no further request
C35_RetryOnlyAfter429 ==
  /\ [][(op' = "request" /\ ret.requests >= 1 /\ ret'.requests > ret.requests)
         => ret.last = "429"]_vars
  /\ []((op = "request" /\ ret.last \notin {"none", "ok", "429"}) => ret.status = "raised")
  /\ []((op = "request" /\ ~arg.apiKey) => (ret.status = "raised" /\ ret.requests = 0))

\* C38: one gateway call ends: while the provider keeps answering 429 the
\* adapter makes at most 5 requests, waits 2, 4, 8 and 16 s before the 2nd to
\* 5th, and then raises the rate-limit error
C38_BoundedBackoff ==
  (op = "request" /\ arg.adapter \in {"mistral", "openrouter"}) =>
    /\ ret.requests <= 5
    /\ ret.waits = SubSeq(<<2000, 4000, 8000, 16000>>, 1, Len(ret.waits))
    /\ ret.requests >= 1 => Len(ret.waits) = ret.requests - 1
    /\ ret.status = "calling" => (ret.requests < 5 /\ ret.last = "429")
    /\ (ret.requests = 5 /\ ret.last = "429")
       => (ret.status = "raised" /\ ret.err = "Rate limited")

\* five requests were answered 429 and the call raised the rate-limit error
C38_Witness ==
  /\ op = "request" /\ arg.adapter = "openrouter"
  /\ ret.requests = 5 /\ ret.waits = <<2000, 4000, 8000, 16000>>
  /\ ret.status = "raised" /\ ret.err = "Rate limited"

\* C34: the loop issues exactly one gateway call per turn and never issues a
\* turn again: the calls of a run number the turns reached, a failed call ends
\* the run without another call, and a turn whose output has no tool call
\* moves on to the next turn
C34_OneCallPerTurn ==
  /\ [](pc \in {"loop", "handle"}
         => llmCalls = (IF pc = "loop" THEN turn - 1 ELSE turn))
  /\ [][(llmCalls' # llmCalls /\ pc # "start") => llmCalls' = llmCalls + 1]_vars
  /\ [][(pc = "loop" /\ llmCalls' = llmCalls + 1 /\ pc' # "handle")
         => pc' \in {"aborted", "start"}]_vars
  /\ [][(pc = "handle" /\ parseToolCall(response).isNull)
         => (turn' = turn + 1 /\ llmCalls' = llmCalls /\ pc' = "loop")]_vars

\* the second turn's call was made after a first turn whose output had no tool
\* call and was answered with the corrective turn
C34_Witness ==
  /\ pc = "handle" /\ turn = 2 /\ llmCalls = 2
  /\ Len(messages) = 4 /\ messages[3] = Corrective

\* C33: no tool execution keeps the run waiting for ever: it finishes or is
\* stopped at its time limit, and the outcome comes back as an observation
C33_ExecutionsAreTimeboxed ==
  op \in {"bash", "query", "schema", "sample", "tables", "run_command"}
  => ret.obs # "never returns"

\* C32: an observation is never longer than the executor's budget (8000
\* characters for the file tools, 30000 for bash and sql, 3000 in the modular
\* loop): longer output is cut at the budget and marked as truncated
C32_ObservationWithinBudget ==
  op \in {"read_file", "list_files", "bash", "query", "schema", "sample", "tables"}
  => ret.size.len <= (CASE arg.h = "bash" -> OUTPUT_LIMIT
                        [] arg.h = "modular" -> RESULT_LIMIT
                        [] OTHER -> READ_LIMIT)

====
